---- MODULE Spec2Model ----
(***************************************************************************)
(* The Mentra bridge of memchat: the credential store (TokenStore), the    *)
(* pairing coordinator (PairingManager), the backend client                *)
(* (MemchatClient), the chat relay (ChatPipeline), the vision relay        *)
(* (VisionPipeline), the session orchestrator (GlassesSession) and the     *)
(* session registry (MentraApp).                                           *)
(*                                                                         *)
(* The runtime is single-threaded and cooperative: a handler runs without  *)
(* interruption up to its next `await` of a store, network or timer        *)
(* operation.  Every action below is one such run: the code between two    *)
(* suspension points, with the store or network operation that ends the    *)
(* suspension taking effect at the start of the run.                       *)
(*                                                                         *)
(* Time is counted in units of five minutes.                               *)
(***************************************************************************)
EXTENDS Integers, Sequences, FiniteSets, TLC

\* ------------------------------------------------------------ bounds
MaxTime == 3          \* the clock stops advancing here
LifeTime == 1         \* the same three budgets for a run of a whole session
LifeTranscripts == 2
LifeEvents == 1
MaxTokens == 3        \* token pairs the backend issues
MaxTranscripts == 3   \* final transcripts the device delivers
MaxEvents == 2        \* events of one chat response stream
MaxChatTasks == 2     \* frames available to processMessage invocations
MaxDestroy == 2       \* calls of destroy() on one orchestrator
NumRedeemers == 2     \* concurrent POST /api/pair requests
MaxConnects == 2      \* frames available to VisionPipeline.connect invocations
MaxStarts == 2        \* calls of VisionPipeline.start() that find the relay stopped
MaxPhotos == 1        \* camera requests outstanding at a time
MaxPresses == 1       \* short button presses
MaxStops == 2         \* session-end notifications that find no registered orchestrator
MaxWebTokens == 3     \* token pairs the backend issues to the browser
MaxWebCalls == 2      \* frames available to the web client's refreshAccessToken
MaxVoiceCalls == 2    \* voice calls the backend starts for the browser
MaxStartCalls == 2     \* frames available to startSession calls
MaxLines == 4         \* lines of one chat response body
TurnTranscripts == 2  \* the budgets for a run of conversation turns
TurnEvents == 3

\* ------------------------------------------------- program constants
TOKEN_REFRESH_BUFFER_MS == 1   \* 5 * 60 * 1000 ms
ACCESS_TOKEN_LIFETIME == 12    \* 60 * 60 * 1000 ms
PAIRING_TTL == 1               \* 300 s
POLL_TIMEOUT == 1              \* 300_000 ms
MAX_RECONNECT_ATTEMPTS == 10
BASE_BACKOFF_MS == 1000
MAX_BACKOFF_MS == 30000

\* --------------------------------------------------------- universes
User == "u1"                       \* the device identity of the session
Users == {"u1", "u2"}              \* the identities that can hold a pairing ticket
SessionId == "s1"                  \* the transport's session id
Codes == {100000, 100001}          \* randomInt(100000, 999999), two of them
ConvIds == {"c1", "c2"}            \* conversation handles the backend returns
ConvNull == "null"                 \* conversationId: null
ConvEmpty == ""                    \* conversationId: "" (after newConversation)
TokenTexts == {"Hel", "lo"}
ContentTexts == {"Hello there"}
Statuses == {200, 401, 500, 0}     \* 0: the fetch itself rejects (network failure)
SessionStates == {"unpaired", "pairing", "connected", "listening", "thinking", "speaking"}

VisionProc == 0                    \* the connect() that start() awaits
VisionProcs == {VisionProc - i : i \in 0..(MaxConnects - 1)}
ChatTasks == 1..MaxChatTasks
Procs == ChatTasks \cup VisionProcs
Redeemers == 1..NumRedeemers

\* UserMapping; NoMapping stands for null (a stored token is never 0)
NoMapping == [memchatAccessToken |-> 0, memchatRefreshToken |-> 0,
              accessTokenExpiresAt |-> 0, conversationId |-> ConvNull]
\* PairingRequest; NoPairing stands for null
NoPairing == [mentraUserId |-> "", createdAt |-> 0]
NoText == 0

VARIABLES
    now,                 \* Date.now()
    issued,              \* token pairs issued by the backend so far
    userMapping,         \* redis keys mentra:user:{identity}
    pairCodes,           \* redis keys mentra:pair:{code}
    redeem,              \* the suspended handlePairRequest frames
    proc,                \* the suspended async frames (processMessage chains, vision connect)
    conversationId,      \* ChatPipeline.conversationId
    processing,          \* ChatPipeline.processing
    pendingTranscript,   \* ChatPipeline.pendingTranscript
    subscribed,          \* ChatPipeline.start registered onTranscription
    camera,              \* session.capabilities.camera
    running,             \* VisionPipeline.running
    wsOpen,              \* VisionPipeline.ws is an open socket
    captureInterval,     \* VisionPipeline.captureInterval is set
    reconnectAttempts,   \* VisionPipeline.reconnectAttempts
    timers,              \* the delays of the reconnect timeouts scheduled and not yet fired
    failures,            \* channel failures counted since the last open (and the last start)
    channel,             \* sockets the relay let go of and not yet closed; photo requests pending
    visionLog,           \* calls of start() so far; a frame was sent by a stopped relay;
                         \* the latest channel open was refused as unauthorized; the
                         \* latest open came after a failure
    state,               \* GlassesSession.state
    gsPc,                \* where initialize() is suspended
    pollStart,           \* pollForCompletion: start
    memchatClient,       \* GlassesSession.memchatClient is set
    visionPipeline,      \* GlassesSession.visionPipeline is set
    chatPipeline,        \* GlassesSession.chatPipeline is set
    glasses,             \* MentraApp.glasses: the registered session ids
    live,                \* the device session is open (between onSession and onStop)
    stopCalls,           \* session-end notifications received so far
    destroyCalls,        \* calls of destroy() so far
    destroyedFrom,       \* the states in which destroy() was called
    startedAfterDestroy, \* what was started after destroy(): relays, chat calls
    arrived,             \* final transcripts delivered so far (the text of the n-th is n)
    sent,                \* texts for which chatStream has been called
    overwritten,         \* texts that were replaced in the pending slot
    lastRefresh,         \* the outcome of the latest refreshAccessToken
    lastToken,           \* what the latest getAccessToken returned
    deadToken,           \* a refresh was rejected with 401, or the record was found missing
    convReset,           \* where newConversation() is suspended, and how it ended
    lastDone,            \* the handle of the latest Done event, "none" once newConversation ran
    limits,              \* the budgets of the run: transcripts, stream events, clock
    webAuth,             \* the web client: localStorage tokens, refreshAccessToken frames
    voiceHook,           \* the web client: useVoiceSession state, refs and frames
    sse                  \* parseSSEStream: the response body, the reader's position, buffer

envVars == <<now, issued>>
storeVars == <<userMapping, pairCodes>>
chatVars == <<conversationId, processing, pendingTranscript, subscribed>>
chatGhost == <<arrived, sent, overwritten>>
clientGhost == <<lastRefresh, lastToken, deadToken>>
sideVars == <<channel, visionLog, convReset, lastDone>>
visionVars == <<camera, running, wsOpen, captureInterval, reconnectAttempts, timers,
                failures, channel, visionLog>>
orchVars == <<gsPc, pollStart, memchatClient, visionPipeline, chatPipeline, glasses, live,
              stopCalls,
              destroyCalls, destroyedFrom>>
vars == <<now, issued, userMapping, pairCodes, redeem, proc, conversationId, processing,
          pendingTranscript, subscribed, camera, running, wsOpen, captureInterval,
          reconnectAttempts, timers, state, gsPc, pollStart, memchatClient,
          visionPipeline, chatPipeline, glasses, live, destroyCalls, destroyedFrom,
          startedAfterDestroy, arrived, sent, overwritten, lastRefresh, lastToken,
          deadToken,
          limits, webAuth, voiceHook, sse, failures, channel, visionLog, convReset, lastDone, stopCalls>>

\* ------------------------------------------------------------ frames
\* The locals of one suspended async call chain.  A chain that has ended keeps the
\* counters of its last chatStream call (nReq, nRef, first401, refOk, cs) until the
\* frame is used again.  hist is the stream's events so far; next marks the first chat
\* call started after a newConversation() that completed; errs counts the error cards
\* shown in the turn and thrown marks a chain that ended in the rejection handler.
IdleFrame ==
    [pc |-> "idle", text |-> NoText, origin |-> "none", latest |-> NoText,
     conv |-> ConvNull, handle |-> ConvNull, mapping |-> NoMapping, site |-> "none",
     tok |-> 0, exp |-> 0, status |-> -1, full |-> <<>>, hist |-> <<>>, ev |-> 0,
     next |-> FALSE, errs |-> 0, thrown |-> FALSE,
     nReq |-> 0, nRef |-> 0, nFetch |-> 0, first401 |-> FALSE, refOk |-> FALSE,
     cs |-> "none"]

EndFrame(f) ==
    [IdleFrame EXCEPT !.nReq = f.nReq, !.nRef = f.nRef, !.nFetch = f.nFetch,
                      !.first401 = f.first401, !.refOk = f.refOk, !.cs = f.cs,
                      !.errs = f.errs]

FailFrame(f) ==
    [EndFrame([f EXCEPT !.cs = IF f.cs = "run" THEN "fail" ELSE f.cs])
        EXCEPT !.thrown = TRUE]

\* what a chat turn leaves alone
ctlRest == <<lastToken, state, processing, pendingTranscript, sent, startedAfterDestroy,
             reconnectAttempts, timers, failures, wsOpen, captureInterval>>

\* p goes on to its next suspension point with locals f
Goto(p, f) ==
    /\ proc' = [proc EXCEPT ![p] = f]
    /\ UNCHANGED ctlRest

\* ------------------------------------------------------ ChatPipeline
\* a turn that begins without the change of state
BeginTurn_silent(p, text, origin, latest) ==
    /\ proc' = [proc EXCEPT ![p] =
                  [IdleFrame EXCEPT !.pc = "gat_get", !.text = text, !.origin = origin,
                                    !.latest = latest, !.conv = conversationId,
                                    !.site = "gat", !.cs = "run",
                                    !.next = /\ convReset.clean
                                             /\ Cardinality(sent) = convReset.sentAt]]
    /\ processing' = TRUE
    /\ state' = state
    /\ sent' = sent \cup {text}
    /\ startedAfterDestroy' =
          IF destroyCalls > 0 THEN startedAfterDestroy \cup {"chat call"}
          ELSE startedAfterDestroy

\* processMessage up to its first await: lines 135-148, then chatStream line 79 and
\* getAccessToken line 26
BeginTurn(p, text, origin, latest) ==
    /\ proc' = [proc EXCEPT ![p] =
                  [IdleFrame EXCEPT !.pc = "gat_get", !.text = text, !.origin = origin,
                                    !.latest = latest, !.conv = conversationId,
                                    !.site = "gat", !.cs = "run",
                                    !.next = /\ convReset.clean
                                             /\ Cardinality(sent) = convReset.sentAt]]
    /\ processing' = TRUE
    /\ state' = "thinking"
    /\ sent' = sent \cup {text}
    /\ startedAfterDestroy' =
          IF destroyCalls > 0 THEN startedAfterDestroy \cup {"chat call"}
          ELSE startedAfterDestroy

\* processMessage lines 193-202: mark idle, then take the queued transcript
EndTurn(p) ==
    IF pendingTranscript # NoText
    THEN /\ pendingTranscript' = NoText
         /\ BeginTurn(p, pendingTranscript, "dequeue", arrived)
         /\ UNCHANGED <<lastToken, reconnectAttempts, timers, failures, wsOpen, captureInterval>>
    ELSE /\ proc' = [proc EXCEPT ![p] = EndFrame(proc[p])]
         /\ processing' = FALSE
         /\ state' = "listening"
         /\ UNCHANGED <<lastToken, pendingTranscript, sent, startedAfterDestroy,
                        reconnectAttempts, timers, failures, wsOpen, captureInterval>>

\* a rejection handler that falls back to connected
ChatCatch_connected(p) ==
    /\ proc' = [proc EXCEPT ![p] = FailFrame(proc[p])]
    /\ state' = "connected"
    /\ processing' = FALSE
    /\ UNCHANGED <<lastToken, pendingTranscript, sent, startedAfterDestroy,
                   reconnectAttempts, timers, failures, wsOpen, captureInterval>>

\* a rejection handler that leaves the processing flag set
ChatCatch_busy(p) ==
    /\ proc' = [proc EXCEPT ![p] = FailFrame(proc[p])]
    /\ state' = "listening"
    /\ processing' = processing
    /\ UNCHANGED <<lastToken, pendingTranscript, sent, startedAfterDestroy,
                   reconnectAttempts, timers, failures, wsOpen, captureInterval>>

\* the rejection handler of handleTranscription, lines 127-131
ChatCatch(p) ==
    /\ proc' = [proc EXCEPT ![p] = FailFrame(proc[p])]
    /\ state' = "listening"
    /\ processing' = FALSE
    /\ UNCHANGED <<lastToken, pendingTranscript, sent, startedAfterDestroy,
                   reconnectAttempts, timers, failures, wsOpen, captureInterval>>

\* ---------------------------------------------------- VisionPipeline
Min(a, b) == IF a < b THEN a ELSE b

\* a backoff that is never capped
backoff_uncapped(n) == BASE_BACKOFF_MS * 2^n

\* lines 78-81
backoff(n) == Min(BASE_BACKOFF_MS * 2^n, MAX_BACKOFF_MS)

\* the attempt limit tested one too late
reconnect_late ==
    /\ failures' = [open |-> failures.open + 1, run |-> failures.run + 1]
    /\ IF running /\ reconnectAttempts <= MAX_RECONNECT_ATTEMPTS
       THEN /\ reconnectAttempts' = reconnectAttempts + 1
            /\ timers' = Append(timers, backoff(reconnectAttempts))
       ELSE UNCHANGED <<reconnectAttempts, timers>>

\* a relay that gives up after one reconnect
reconnect_once ==
    /\ failures' = [open |-> failures.open + 1, run |-> failures.run + 1]
    /\ IF running /\ reconnectAttempts < 1
       THEN /\ reconnectAttempts' = reconnectAttempts + 1
            /\ timers' = Append(timers, backoff(reconnectAttempts))
       ELSE UNCHANGED <<reconnectAttempts, timers>>

\* reconnect(), lines 71-87, called for a failed open or a closed channel
reconnect ==
    /\ failures' = [open |-> failures.open + 1, run |-> failures.run + 1]
    /\ IF running /\ reconnectAttempts < MAX_RECONNECT_ATTEMPTS
       THEN /\ reconnectAttempts' = reconnectAttempts + 1
            /\ timers' = Append(timers, backoff(reconnectAttempts))
       ELSE UNCHANGED <<reconnectAttempts, timers>>

\* the catch of connect(), lines 65-68
VisionCatch(p) ==
    /\ proc' = [proc EXCEPT ![p] = IdleFrame]
    /\ reconnect
    /\ UNCHANGED <<lastToken, state, processing, pendingTranscript, sent,
                   startedAfterDestroy, wsOpen, captureInterval>>

\* an exception leaves the client and reaches the caller's handler
Throw(p) == IF p \in ChatTasks THEN ChatCatch(p) ELSE VisionCatch(p)

\* ----------------------------------------------------- MemchatClient
\* the expiry test without the safety margin
IsFresh_nomargin(mapping, t) == t < mapping.accessTokenExpiresAt

\* line 31
IsFresh(mapping, t) == t < mapping.accessTokenExpiresAt - TOKEN_REFRESH_BUFFER_MS

\* the record dropped on every failed refresh
RefreshRejected_anyfailure(status) == status # 200

\* line 51
RefreshRejected(status) == status = 401

\* a token reaches the caller: chatStream goes on to its fetch (line 84 or 96),
\* connectVisionWebSocket to new WebSocket (line 163)
ReturnToken(p, tok, kind, good) ==
    LET f == proc[p] IN
    /\ proc' = [proc EXCEPT ![p] =
          IF p \in ChatTasks
          THEN [f EXCEPT !.pc = IF f.site = "gat" THEN "cs_fetch1" ELSE "cs_fetch2",
                         !.tok = tok, !.nReq = f.nReq + 1,
                         !.refOk = (f.site = "r401"), !.mapping = NoMapping,
                         !.exp = 0, !.status = -1]
          ELSE [f EXCEPT !.pc = "ws_open", !.tok = tok, !.mapping = NoMapping,
                         !.exp = 0, !.status = -1]]
    /\ lastToken' = IF f.site = "gat"
                    THEN [kind |-> kind, good |-> good, refreshes |-> f.nFetch]
                    ELSE lastToken
    /\ UNCHANGED <<state, processing, pendingTranscript, sent, startedAfterDestroy,
                   reconnectAttempts, timers, failures, wsOpen, captureInterval>>

clientRest == <<now, pairCodes, redeem, conversationId, subscribed, camera, sideVars, running,
                orchVars, arrived, overwritten, limits, webAuth, voiceHook, sse>>

\* getAccessToken after its await of getUserMapping, lines 26-35
getAccessToken(p) ==
    /\ proc[p].pc = "gat_get"
    /\ LET m == userMapping[User] IN
       IF m = NoMapping
       THEN /\ deadToken' = TRUE
            /\ Throw(p)
       ELSE /\ deadToken' = deadToken
            /\ IF IsFresh(m, now)
               THEN ReturnToken(p, m.memchatAccessToken, "cached",
                                now < m.accessTokenExpiresAt - TOKEN_REFRESH_BUFFER_MS)
               ELSE Goto(p, [proc[p] EXCEPT !.pc = "ref_get"])
    /\ UNCHANGED <<issued, userMapping, lastRefresh>>
    /\ UNCHANGED clientRest

\* refreshAccessToken after its await of getUserMapping, lines 39-48
refreshAccessToken_get(p) ==
    /\ proc[p].pc = "ref_get"
    /\ LET m == userMapping[User] IN
       IF m = NoMapping
       THEN /\ deadToken' = TRUE
            /\ Throw(p)
       ELSE /\ deadToken' = deadToken
            /\ Goto(p, [proc[p] EXCEPT !.pc = "ref_fetch", !.mapping = m])
    /\ UNCHANGED <<issued, userMapping, lastRefresh>>
    /\ UNCHANGED clientRest

\* refreshAccessToken after its fetch and resp.json(), lines 50-64
refreshAccessToken_fetch(p) ==
    /\ proc[p].pc = "ref_fetch"
    /\ UNCHANGED <<userMapping, deadToken>>
    /\ \E status \in Statuses :
         IF status = 200
         THEN /\ issued < MaxTokens
              /\ issued' = issued + 1
              /\ Goto(p, [proc[p] EXCEPT !.pc = "ref_store", !.tok = issued + 1,
                                         !.exp = now + ACCESS_TOKEN_LIFETIME,
                                         !.status = status,
                                         !.nFetch = proc[p].nFetch + 1])
              /\ UNCHANGED lastRefresh
         ELSE /\ issued' = issued
              /\ IF RefreshRejected(status)
                 THEN /\ Goto(p, [proc[p] EXCEPT !.pc = "ref_remove", !.status = status,
                                                 !.nFetch = proc[p].nFetch + 1])
                      /\ UNCHANGED lastRefresh
                 ELSE /\ lastRefresh' = [status |-> status,
                                         deleted |-> userMapping'[User] = NoMapping,
                                         raised |-> TRUE]
                      /\ Throw(p)
    /\ UNCHANGED clientRest

\* refreshAccessToken after its await of removeUserMapping, lines 52-53
refreshAccessToken_remove(p) ==
    /\ proc[p].pc = "ref_remove"
    /\ userMapping' = [userMapping EXCEPT ![User] = NoMapping]
    /\ lastRefresh' = [status |-> proc[p].status,
                       deleted |-> userMapping'[User] = NoMapping, raised |-> TRUE]
    /\ deadToken' = TRUE
    /\ Throw(p)
    /\ UNCHANGED issued
    /\ UNCHANGED clientRest

\* refreshAccessToken after its await of storeUserMapping, lines 65-72
refreshAccessToken_store(p) ==
    /\ proc[p].pc = "ref_store"
    /\ userMapping' = [userMapping EXCEPT ![User] =
          [memchatAccessToken |-> proc[p].tok, memchatRefreshToken |-> proc[p].tok,
           accessTokenExpiresAt |-> proc[p].exp,
           conversationId |-> proc[p].mapping.conversationId]]
    /\ lastRefresh' = [status |-> proc[p].status,
                       deleted |-> userMapping'[User] = NoMapping, raised |-> FALSE]
    /\ ReturnToken(p, proc[p].tok, "refreshed",
                   userMapping'[User].memchatAccessToken = proc[p].tok)
    /\ UNCHANGED <<issued, deadToken>>
    /\ UNCHANGED clientRest

\* chatStream after its first fetch, lines 93-115
chatStream_fetch(p) ==
    /\ proc[p].pc = "cs_fetch1"
    /\ \E status \in Statuses :
         IF status = 401
         THEN Goto(p, [proc[p] EXCEPT !.pc = "ref_get", !.site = "r401",
                                      !.first401 = TRUE, !.nRef = proc[p].nRef + 1])
         ELSE IF status = 200
              THEN Goto(p, [proc[p] EXCEPT !.pc = "cs_stream", !.cs = "stream", !.tok = 0])
              ELSE Throw(p)
    /\ UNCHANGED <<issued, userMapping, clientGhost>>
    /\ UNCHANGED clientRest

\* a retried fetch that refreshes and retries again on 401
chatStream_retry_again(p) ==
    /\ proc[p].pc = "cs_fetch2"
    /\ \E status \in Statuses :
         IF status = 401
         THEN Goto(p, [proc[p] EXCEPT !.pc = "ref_get", !.site = "r401",
                                      !.nRef = proc[p].nRef + 1])
         ELSE IF status = 200
              THEN Goto(p, [proc[p] EXCEPT !.pc = "cs_stream", !.cs = "stream", !.tok = 0])
              ELSE Throw(p)
    /\ UNCHANGED <<issued, userMapping, clientGhost>>
    /\ UNCHANGED clientRest

\* chatStream after the retried fetch, lines 104-108
chatStream_retry(p) ==
    /\ proc[p].pc = "cs_fetch2"
    /\ \E status \in Statuses :
         IF status = 200
         THEN Goto(p, [proc[p] EXCEPT !.pc = "cs_stream", !.cs = "stream", !.tok = 0])
         ELSE Throw(p)
    /\ UNCHANGED <<issued, userMapping, clientGhost>>
    /\ UNCHANGED clientRest

\* ------------------------------------------------------ ChatPipeline
chatRest == <<now, issued, pairCodes, redeem, subscribed, camera, sideVars, running, orchVars,
              clientGhost, reconnectAttempts, timers, failures, wsOpen, captureInterval,
              limits, webAuth, voiceHook, sse>>

\* chatStream line 82: a handle that is null or empty is not sent
HasHandle(c) == c \notin {ConvNull, ConvEmpty}

\* the events of a chat stream that carry no conversation handle
ChatEvents ==
    [type : {"token"}, text : TokenTexts] \cup [type : {"content"}, text : ContentTexts]
        \cup {[type |-> "progress", text |-> ""], [type |-> "error", text |-> ""]}

\* the error cards of a turn after event e, lines 175-178
ErrorCards(n, e) == IF e.type = "error" THEN n + 1 ELSE n

\* a Content event appended to the buffer
Accumulate_append(full, e) ==
    IF e.type \in {"token", "content"} THEN Append(full, e.text) ELSE full

\* a switch in which an Error event discards the text so far
Accumulate_reset(full, e) ==
    CASE e.type = "token" -> Append(full, e.text)
      [] e.type = "content" -> <<e.text>>
      [] e.type = "error" -> <<>>
      [] OTHER -> full

\* the switch of processMessage on fullResponse, lines 151-161; the text is kept as
\* the sequence of the pieces that were concatenated
Accumulate(full, e) ==
    CASE e.type = "token" -> Append(full, e.text)
      [] e.type = "content" -> <<e.text>>
      [] OTHER -> full

\* handleTranscription without its test of the processing flag
Busy_ignored == FALSE

\* line 122
Busy == processing

\* handleTranscription(text, isFinal), lines 116-132; the text of the n-th final
\* transcript is n
handleTranscription(isFinal) ==
    /\ subscribed
    /\ live
    /\ IF ~isFinal
       THEN UNCHANGED <<proc, state, processing, pendingTranscript, arrived, sent,
                        overwritten, startedAfterDestroy>>
       ELSE /\ arrived < limits.transcripts
            /\ arrived' = arrived + 1
            /\ IF Busy
               THEN /\ pendingTranscript' = arrived + 1
                    /\ overwritten' = IF pendingTranscript # NoText
                                      THEN overwritten \cup {pendingTranscript}
                                      ELSE overwritten
                    /\ UNCHANGED <<proc, state, processing, sent, startedAfterDestroy>>
               ELSE /\ \E p \in ChatTasks :
                         /\ proc[p].pc = "idle"
                         /\ \A q \in ChatTasks : q < p => proc[q].pc # "idle"
                         /\ BeginTurn(p, arrived + 1, "direct", arrived + 1)
                    /\ UNCHANGED <<pendingTranscript, overwritten>>
    /\ UNCHANGED <<userMapping, conversationId>>
    /\ UNCHANGED chatRest

\* one turn of the for-await loop of processMessage, lines 146-180, or its end and
\* lines 183-190
processMessage_event(p) ==
    /\ proc[p].pc = "cs_stream"
    /\ \/ /\ proc[p].ev < limits.events
          /\ \E e \in ChatEvents :                      \* token, content, progress, error
               Goto(p, [proc[p] EXCEPT !.ev = @ + 1, !.hist = Append(@, e),
                                       !.full = Accumulate(@, e),
                                       !.errs = ErrorCards(@, e)])
          /\ UNCHANGED <<conversationId, lastDone>>
       \/ /\ proc[p].ev < limits.events                                 \* done
          /\ \E h \in ConvIds :
               /\ conversationId' = h
               /\ lastDone' = h
               /\ Goto(p, [proc[p] EXCEPT !.ev = @ + 1, !.pc = "upd_get", !.handle = h,
                                          !.hist = Append(@, [type |-> "done", text |-> h])])
       \/ /\ IF proc[p].full # <<>>                                 \* the stream ends
             THEN /\ state' = "speaking"
                  /\ proc' = [proc EXCEPT ![p].pc = "speak"]
                  /\ UNCHANGED <<lastToken, processing, pendingTranscript, sent,
                                 startedAfterDestroy, reconnectAttempts, timers, failures, wsOpen,
                                 captureInterval>>
             ELSE EndTurn(p)
          /\ UNCHANGED <<conversationId, lastDone>>
       \/ /\ Throw(p)                                               \* the read fails
          /\ UNCHANGED <<conversationId, lastDone>>
    /\ UNCHANGED <<now, issued, userMapping, pairCodes, redeem, subscribed, camera, channel,
                   visionLog, convReset, running, orchVars, clientGhost, arrived,
                   overwritten, limits, webAuth, voiceHook, sse>>

\* updateConversationId after its await of getUserMapping, lines 229-231
updateConversationId_get(p) ==
    /\ proc[p].pc = "upd_get"
    /\ LET m == userMapping[User] IN
       IF m = NoMapping
       THEN Throw(p)
       ELSE Goto(p, [proc[p] EXCEPT !.pc = "upd_store",
                                    !.mapping = [m EXCEPT !.conversationId = proc[p].handle]])
    /\ UNCHANGED <<now, issued, userMapping, pairCodes, redeem, conversationId, subscribed,
                   camera, sideVars, running, orchVars, clientGhost, arrived, overwritten,
                   limits, webAuth, voiceHook, sse>>

\* an update that does not reach the store
updateConversationId_lost(p) ==
    /\ proc[p].pc = "upd_store"
    /\ userMapping' = userMapping
    /\ Goto(p, [proc[p] EXCEPT !.pc = "cs_stream", !.mapping = NoMapping,
                               !.handle = ConvNull])
    /\ UNCHANGED <<now, issued, pairCodes, redeem, conversationId, subscribed,
                   camera, sideVars, running, orchVars, clientGhost, arrived, overwritten,
                   limits, webAuth, voiceHook, sse>>

\* updateConversationId after its await of storeUserMapping, line 232
updateConversationId_store(p) ==
    /\ proc[p].pc = "upd_store"
    /\ userMapping' = [userMapping EXCEPT ![User] = proc[p].mapping]
    /\ Goto(p, [proc[p] EXCEPT !.pc = "cs_stream", !.mapping = NoMapping,
                               !.handle = ConvNull])
    /\ UNCHANGED <<now, issued, pairCodes, redeem, conversationId, subscribed,
                   camera, sideVars, running, orchVars, clientGhost, arrived, overwritten,
                   limits, webAuth, voiceHook, sse>>

\* processMessage after its await of audio.speak, lines 188-202
processMessage_speak(p) ==
    /\ proc[p].pc = "speak"
    /\ \E spoken \in BOOLEAN : IF spoken THEN EndTurn(p) ELSE Throw(p)
    /\ UNCHANGED <<now, issued, userMapping, pairCodes, redeem, conversationId, subscribed,
                   camera, sideVars, running, orchVars, clientGhost, arrived, overwritten,
                   limits, webAuth, voiceHook, sse>>

\* what newConversation() leaves alone
resetRest == <<now, issued, pairCodes, redeem, proc, processing, pendingTranscript,
               subscribed, visionVars, state, orchVars, startedAfterDestroy, chatGhost,
               clientGhost, limits, webAuth, voiceHook, sse>>

\* GlassesSession.handleButton, lines 323-333, with newConversation up to its await of
\* getUserMapping in updateConversationId, lines 206-207
handleButton(pressType) ==
    /\ live
    /\ gsPc # "none"
    /\ IF pressType = "short" /\ chatPipeline
       THEN /\ convReset.pc = "idle"
            /\ convReset.presses < MaxPresses
            /\ conversationId' = ConvNull
            /\ convReset' = [convReset EXCEPT !.pc = "upd_get", !.presses = @ + 1,
                                              !.clean = FALSE, !.failed = FALSE]
            /\ lastDone' = "none"
       ELSE UNCHANGED <<conversationId, convReset, lastDone>>
    /\ UNCHANGED userMapping
    /\ UNCHANGED resetRest

\* newConversation: updateConversationId after its await of getUserMapping, part_018
\* lines 229-231; a rejection of newConversation() has no handler
newConversation_get ==
    /\ convReset.pc = "upd_get"
    /\ LET m == userMapping[User] IN
       convReset' = IF m = NoMapping
                    THEN [convReset EXCEPT !.pc = "idle", !.failed = TRUE]
                    ELSE [convReset EXCEPT !.pc = "upd_store",
                                           !.mapping = [m EXCEPT !.conversationId = ConvEmpty]]
    /\ lastDone' = "none"
    /\ UNCHANGED <<userMapping, conversationId>>
    /\ UNCHANGED resetRest

\* newConversation: updateConversationId after its await of storeUserMapping, part_018
\* line 232, then lines 208-212
newConversation_store ==
    /\ convReset.pc = "upd_store"
    /\ userMapping' = [userMapping EXCEPT ![User] = convReset.mapping]
    /\ convReset' = [convReset EXCEPT !.pc = "speak", !.mapping = NoMapping]
    /\ lastDone' = "none"
    /\ UNCHANGED conversationId
    /\ UNCHANGED resetRest

\* newConversation after its await of audio.speak, line 212
newConversation_spoken ==
    /\ convReset.pc = "speak"
    /\ \E spoken \in BOOLEAN :
         convReset' = IF spoken
                      THEN [convReset EXCEPT !.pc = "idle", !.clean = TRUE,
                                             !.sentAt = Cardinality(sent)]
                      ELSE [convReset EXCEPT !.pc = "idle", !.failed = TRUE]
    /\ lastDone' = "none"
    /\ UNCHANGED <<userMapping, conversationId>>
    /\ UNCHANGED resetRest

\* ---------------------------------------------------- VisionPipeline
\* what comes of new WebSocket(url), part_017 lines 163-166: "open", or "error" for
\* a handshake the backend refuses as unauthorized and for any other failure
Handshakes == {"open", "error", "unauthorized"}

\* connect() after connectVisionWebSocket settles, lines 41-68
\* A socket that was open in this.ws when the field is overwritten stays open with
\* its handlers attached.
connect_opened(p) ==
    /\ proc[p].pc = "ws_open"
    /\ \E outcome \in Handshakes :
         IF outcome = "open"
         THEN /\ wsOpen' = TRUE
              /\ channel' = IF wsOpen THEN [channel EXCEPT !.detached = @ + 1] ELSE channel
              /\ reconnectAttempts' = 0
              /\ failures' = [open |-> 0, run |-> 0]
              /\ captureInterval' = TRUE
              /\ proc' = [proc EXCEPT ![p] = IdleFrame]
              /\ UNCHANGED <<lastToken, state, processing, pendingTranscript, sent,
                             startedAfterDestroy, timers>>
              /\ visionLog' = [visionLog EXCEPT !.denied = FALSE,
                                                !.reopened = failures.run > 0]
         ELSE /\ Throw(p)
              /\ visionLog' = [visionLog EXCEPT !.denied = (outcome = "unauthorized")]
              /\ UNCHANGED channel
    /\ UNCHANGED <<now, issued, userMapping, pairCodes, redeem, conversationId, subscribed,
                   camera, convReset, lastDone, running, orchVars, clientGhost,
                   arrived, overwritten, limits, webAuth, voiceHook, sse>>

visionRest == <<now, issued, storeVars, redeem, chatVars, state, orchVars,
                startedAfterDestroy, chatGhost, clientGhost,
                limits, webAuth, voiceHook, sse, camera, convReset,
                lastDone>>

\* connect() up to the await of getAccessToken in connectVisionWebSocket, lines 38-41
\* and part_017 lines 153-156, on the first free frame
BeginConnect ==
    \E p \in VisionProcs :
        /\ proc[p].pc = "idle"
        /\ \A q \in VisionProcs : q > p => proc[q].pc # "idle"
        /\ proc' = [proc EXCEPT ![p] = [IdleFrame EXCEPT !.pc = "gat_get", !.site = "gat"]]

\* start(), lines 24-35
start ==
    IF running
    THEN UNCHANGED <<proc, running, reconnectAttempts, failures, visionLog>>
    ELSE /\ running' = TRUE
         /\ reconnectAttempts' = 0
         /\ failures' = [failures EXCEPT !.run = 0]
         /\ visionLog' = [visionLog EXCEPT !.starts = @ + 1]
         /\ IF camera THEN BeginConnect ELSE UNCHANGED proc

\* stop(), lines 131-140: a socket closed here reports its close later
stop ==
    /\ running' = FALSE
    /\ captureInterval' = FALSE
    /\ wsOpen' = FALSE
    /\ channel' = IF wsOpen THEN [channel EXCEPT !.detached = @ + 1] ELSE channel

\* a call of start() on the relay
start_called ==
    /\ visionPipeline
    /\ visionLog.starts < MaxStarts
    /\ start
    /\ UNCHANGED <<wsOpen, captureInterval, timers, channel>>
    /\ UNCHANGED visionRest

\* a call of stop() on the relay
stop_called ==
    /\ visionPipeline
    /\ stop
    /\ UNCHANGED <<proc, reconnectAttempts, timers, failures, visionLog>>
    /\ UNCHANGED visionRest

\* a reconnect timeout fires: connect(), line 86 and lines 38-41
connect_timer ==
    /\ \E i \in 1..Len(timers) :
         timers' = SubSeq(timers, 1, i - 1) \o SubSeq(timers, i + 1, Len(timers))
    /\ IF running THEN BeginConnect ELSE UNCHANGED proc
    /\ UNCHANGED <<running, wsOpen, captureInterval, reconnectAttempts, failures, channel,
                   visionLog>>
    /\ UNCHANGED visionRest

\* the close handler of a socket, lines 54-58: of the socket in this.ws when the
\* backend closes it, or of a socket the relay let go of
ws_close(current) ==
    /\ IF current
       THEN /\ wsOpen
            /\ wsOpen' = FALSE
            /\ UNCHANGED channel
       ELSE /\ channel.detached > 0
            /\ channel' = [channel EXCEPT !.detached = @ - 1]
            /\ UNCHANGED wsOpen
    /\ captureInterval' = FALSE
    /\ reconnect
    /\ UNCHANGED <<proc, running, visionLog>>
    /\ UNCHANGED visionRest

\* the capture interval fires: captureAndSend up to its await, lines 103-106
captureAndSend ==
    /\ captureInterval
    /\ IF wsOpen
       THEN /\ channel.photos < MaxPhotos
            /\ channel' = [channel EXCEPT !.photos = @ + 1]
       ELSE UNCHANGED channel
    /\ UNCHANGED <<proc, running, wsOpen, captureInterval, reconnectAttempts, timers,
                   failures, visionLog>>
    /\ UNCHANGED visionRest

\* captureAndSend after its await of requestPhoto, lines 107-110, with
\* sendVisionFrame, part_017 lines 170-174
captureAndSend_photo ==
    /\ channel.photos > 0
    /\ channel' = [channel EXCEPT !.photos = @ - 1]
    /\ \E taken \in BOOLEAN :
         visionLog' = [visionLog EXCEPT !.stoppedFrames =
                          @ \/ (taken /\ wsOpen /\ ~running)]
    /\ UNCHANGED <<proc, running, wsOpen, captureInterval, reconnectAttempts, timers,
                   failures>>
    /\ UNCHANGED visionRest

\* ---------------------------------------------------- GlassesSession
gsRest == <<now, issued, redeem, pendingTranscript, processing, camera, channel, convReset,
            lastDone, wsOpen, captureInterval, timers, glasses, live, stopCalls, destroyCalls,
            destroyedFrom, arrived, sent, overwritten, clientGhost, limits, webAuth, voiceHook, sse>>

AfterDestroy(what) ==
    IF destroyCalls > 0 THEN startedAfterDestroy \cup {what} ELSE startedAfterDestroy

\* startPairing up to its first await, lines 270-271, and PairingManager.startPairing
\* up to its await of storePairingCode
startPairing ==
    /\ state' = "pairing"
    /\ gsPc' = "pair_store"
    /\ UNCHANGED <<proc, memchatClient, visionPipeline, chatPipeline, running,
                   reconnectAttempts, failures, visionLog, startedAfterDestroy>>

\* startConnected up to its first await, lines 294-304, with start() of the relay
\* it has just made
startConnected ==
    /\ state' = "connected"
    /\ memchatClient' = TRUE
    /\ visionPipeline' = TRUE
    /\ start
    /\ gsPc' = "vision_start"
    /\ startedAfterDestroy' = AfterDestroy("vision relay")
    /\ UNCHANGED chatPipeline

\* MentraApp.onSession, part_018 lines 29-46, with initialize up to its await,
\* lines 252-260
onSession ==
    /\ gsPc = "none"
    /\ glasses' = glasses \cup {SessionId}
    /\ live' = TRUE
    /\ gsPc' = "init_get"
    /\ UNCHANGED <<stopCalls, now, issued, storeVars, redeem, proc, chatVars, visionVars, state,
                   pollStart, memchatClient, visionPipeline, chatPipeline, destroyCalls,
                   destroyedFrom, startedAfterDestroy, chatGhost, clientGhost,
                   limits, webAuth, voiceHook, sse,
                   convReset, lastDone>>

\* initialize after its await of getUserMapping, lines 262-266
initialize_get ==
    /\ gsPc = "init_get"
    /\ IF userMapping[User] # NoMapping THEN startConnected ELSE startPairing
    /\ UNCHANGED <<storeVars, conversationId, subscribed, pollStart>>
    /\ UNCHANGED gsRest

\* PairingManager.startPairing after its await of storePairingCode, lines 84-94, then
\* pollForCompletion up to its first await, lines 101-103
startPairing_store ==
    /\ gsPc = "pair_store"
    /\ \E code \in Codes :
         pairCodes' = [pairCodes EXCEPT ![code] =
                          [mentraUserId |-> User, createdAt |-> now]]
    /\ pollStart' = now
    /\ gsPc' = "poll_get"
    /\ UNCHANGED <<userMapping, proc, conversationId, subscribed, state, memchatClient,
                   visionPipeline, chatPipeline, running, reconnectAttempts, failures, visionLog,
                   startedAfterDestroy>>
    /\ UNCHANGED gsRest

\* pollForCompletion after its await of getUserMapping, lines 103-105, and
\* GlassesSession.startPairing lines 277-282
pollForCompletion_get ==
    /\ gsPc = "poll_get"
    /\ gsPc' = IF userMapping[User] # NoMapping THEN "paired_speak" ELSE "poll_sleep"
    /\ UNCHANGED <<storeVars, proc, conversationId, subscribed, state, pollStart,
                   memchatClient, visionPipeline, chatPipeline, running, reconnectAttempts,
                   failures, visionLog,
                   startedAfterDestroy>>
    /\ UNCHANGED gsRest

\* a poll that starts the pairing over when it times out
pollForCompletion_sleep_restart ==
    /\ gsPc = "poll_sleep"
    /\ IF now - pollStart < POLL_TIMEOUT
       THEN /\ gsPc' = "poll_get"
            /\ state' = state
       ELSE /\ gsPc' = "pair_store"
            /\ state' = "pairing"
    /\ UNCHANGED <<storeVars, proc, conversationId, subscribed, pollStart, memchatClient,
                   visionPipeline, chatPipeline, running, reconnectAttempts, failures, visionLog,
                   startedAfterDestroy>>
    /\ UNCHANGED gsRest

\* pollForCompletion after its sleep, lines 102-107, and GlassesSession.startPairing
\* lines 284-290
pollForCompletion_sleep ==
    /\ gsPc = "poll_sleep"
    /\ IF now - pollStart < POLL_TIMEOUT
       THEN /\ gsPc' = "poll_get"
            /\ state' = state
       ELSE /\ gsPc' = "expired"
            /\ state' = "unpaired"
    /\ UNCHANGED <<storeVars, proc, conversationId, subscribed, pollStart, memchatClient,
                   visionPipeline, chatPipeline, running, reconnectAttempts, failures, visionLog,
                   startedAfterDestroy>>
    /\ UNCHANGED gsRest

\* GlassesSession.startPairing after its await of audio.speak, lines 282-283
startPairing_spoken ==
    /\ gsPc = "paired_speak"
    /\ \E spoken \in BOOLEAN :
         IF spoken
         THEN startConnected
         ELSE /\ gsPc' = "failed"
              /\ UNCHANGED <<proc, state, memchatClient, visionPipeline, chatPipeline,
                             running, reconnectAttempts, failures, visionLog, startedAfterDestroy>>
    /\ UNCHANGED <<storeVars, conversationId, subscribed, pollStart>>
    /\ UNCHANGED gsRest

\* a startConnected that goes on only once the vision channel is open
startConnected_vision_open ==
    /\ gsPc = "vision_start"
    /\ proc[VisionProc].pc = "idle"
    /\ wsOpen \/ ~camera
    /\ chatPipeline' = TRUE
    /\ gsPc' = "chat_start"
    /\ startedAfterDestroy' = AfterDestroy("chat relay")
    /\ UNCHANGED <<storeVars, proc, conversationId, subscribed, state, pollStart,
                   memchatClient, visionPipeline, running, reconnectAttempts, failures, visionLog>>
    /\ UNCHANGED gsRest

\* startConnected after its await of visionPipeline.start, lines 307-314, with
\* ChatPipeline.start up to its await, line 108
startConnected_vision ==
    /\ gsPc = "vision_start"
    /\ proc[VisionProc].pc = "idle"
    /\ chatPipeline' = TRUE
    /\ gsPc' = "chat_start"
    /\ startedAfterDestroy' = AfterDestroy("chat relay")
    /\ UNCHANGED <<storeVars, proc, conversationId, subscribed, state, pollStart,
                   memchatClient, visionPipeline, running, reconnectAttempts, failures, visionLog>>
    /\ UNCHANGED gsRest

\* ChatPipeline.start after its await of getUserMapping, lines 109-113, then
\* startConnected lines 316-320
startConnected_chat ==
    /\ gsPc = "chat_start"
    /\ conversationId' = userMapping[User].conversationId
    /\ subscribed' = TRUE
    /\ state' = "listening"
    /\ gsPc' = "done"
    /\ UNCHANGED <<storeVars, proc, pollStart, memchatClient, visionPipeline, chatPipeline,
                   running, reconnectAttempts, failures, visionLog, startedAfterDestroy>>
    /\ UNCHANGED gsRest

\* a destroy() that returns early when no chat relay is attached
destroy_early ==
    /\ IF chatPipeline /\ visionPipeline
       THEN stop
       ELSE UNCHANGED <<running, captureInterval, wsOpen, channel>>
    /\ visionPipeline' = IF chatPipeline THEN FALSE ELSE visionPipeline
    /\ chatPipeline' = FALSE
    /\ memchatClient' = IF chatPipeline THEN FALSE ELSE memchatClient
    /\ state' = IF chatPipeline THEN "unpaired" ELSE state
    /\ destroyCalls' = destroyCalls + 1
    /\ destroyedFrom' = destroyedFrom \cup {state}
    /\ UNCHANGED <<now, issued, storeVars, redeem, proc, chatVars, camera, visionLog,
                   convReset, lastDone, reconnectAttempts, timers, failures, gsPc, pollStart,
                   startedAfterDestroy, chatGhost, clientGhost, limits, webAuth, voiceHook, sse>>

\* destroy(), lines 352-360, with VisionPipeline.stop, lines 131-140
destroy ==
    /\ IF visionPipeline
       THEN stop
       ELSE UNCHANGED <<running, captureInterval, wsOpen, channel>>
    /\ visionPipeline' = FALSE
    /\ chatPipeline' = FALSE
    /\ memchatClient' = FALSE
    /\ state' = "unpaired"
    /\ destroyCalls' = destroyCalls + 1
    /\ destroyedFrom' = destroyedFrom \cup {state}
    /\ UNCHANGED <<now, issued, storeVars, redeem, proc, chatVars, camera, visionLog,
                   convReset, lastDone, reconnectAttempts, timers, failures, gsPc, pollStart,
                   startedAfterDestroy, chatGhost, clientGhost, limits, webAuth, voiceHook, sse>>

\* an onStop that leaves the orchestrator registered
onStop_kept ==
    /\ live
    /\ SessionId \in glasses
    /\ stopCalls < MaxStops
    /\ destroy
    /\ glasses' = glasses
    /\ live' = FALSE
    /\ stopCalls' = stopCalls + 1

\* MentraApp.onStop for a registered session, part_018 lines 48-62
onStop ==
    /\ live
    /\ SessionId \in glasses
    /\ stopCalls < MaxStops
    /\ destroy
    /\ glasses' = glasses \ {SessionId}
    /\ live' = FALSE
    /\ stopCalls' = stopCalls + 1

\* what a session-end notification without a registered orchestrator leaves alone
stopRest == <<envVars, storeVars, redeem, proc, chatVars, chatGhost, clientGhost,
              visionVars, sideVars, state, gsPc, pollStart, memchatClient, visionPipeline,
              chatPipeline, glasses, live, destroyCalls, destroyedFrom,
              startedAfterDestroy, limits>>

\* MentraApp.onStop for a session id that is not registered, part_018 lines 57-61:
\* the lookup misses
onStop_miss ==
    /\ SessionId \notin glasses
    /\ stopCalls < MaxStops
    /\ stopCalls' = stopCalls + 1
    /\ UNCHANGED <<stopRest, webAuth, voiceHook, sse>>

\* a further call of the public destroy() on the same orchestrator
destroy_again ==
    /\ destroyCalls >= 1
    /\ destroyCalls < MaxDestroy
    /\ destroy
    /\ UNCHANGED <<glasses, live, stopCalls>>

\* ---------------------------------------------------- PairingManager
\* the value handlePairRequest returns; NoResult while it has not returned
NoResult == [success |-> FALSE, error |-> ""]
InvalidCode == [success |-> FALSE, error |-> "Invalid or expired pairing code"]
Success == [success |-> TRUE, error |-> ""]

\* the answers of the backend to a rejected login: with a detail, and without one
LoginRejections ==
    {[status |-> 401, detail |-> "Incorrect email or password"],
     [status |-> 500, detail |-> ""]}

\* lines 131-134: body.detail ?? `Authentication failed (${resp.status})`
Rejected(resp) ==
    [success |-> FALSE,
     error |-> IF resp.detail # "" THEN resp.detail
               ELSE "Authentication failed (" \o ToString(resp.status) \o ")"]

\* the locals of one handlePairRequest call; at is the time of its redis.get
NoRedeem == [pc |-> "idle", code |-> 0, raw |-> NoPairing, at |-> 0, tok |-> 0, exp |-> 0,
             result |-> NoResult]

\* redis GET of a key stored with SETEX PAIRING_TTL
PairGet(code) ==
    IF pairCodes[code] # NoPairing /\ now < pairCodes[code].createdAt + PAIRING_TTL
    THEN pairCodes[code]
    ELSE NoPairing

pairRest == <<proc, chatVars, visionVars, state, orchVars, startedAfterDestroy,
              chatGhost, clientGhost, limits, webAuth, voiceHook, sse, convReset, lastDone>>

\* POST /api/pair: handlePairRequest up to the await of redis.get in
\* consumePairingCode, part_018 lines 115 and 188
handlePairRequest(r) ==
    /\ redeem[r].pc = "idle"
    /\ \E code \in Codes :
         redeem' = [redeem EXCEPT ![r] = [NoRedeem EXCEPT !.pc = "get", !.code = code]]
    /\ UNCHANGED <<now, issued, storeVars>>
    /\ UNCHANGED pairRest

\* consumePairingCode after its await of redis.get, lines 188-190, and
\* handlePairRequest lines 116-118
consumePairingCode_get(r) ==
    /\ redeem[r].pc = "get"
    /\ LET raw == PairGet(redeem[r].code) IN
       redeem' = [redeem EXCEPT ![r] =
          IF raw = NoPairing
          THEN [@ EXCEPT !.pc = "done", !.at = now, !.result = InvalidCode]
          ELSE [@ EXCEPT !.pc = "del", !.at = now, !.raw = raw]]
    /\ UNCHANGED <<now, issued, storeVars>>
    /\ UNCHANGED pairRest

\* consumePairingCode after its await of redis.del, lines 190-191, and
\* handlePairRequest up to its fetch, line 120
consumePairingCode_del(r) ==
    /\ redeem[r].pc = "del"
    /\ pairCodes' = [pairCodes EXCEPT ![redeem[r].code] = NoPairing]
    /\ redeem' = [redeem EXCEPT ![r].pc = "login"]
    /\ UNCHANGED <<now, issued, userMapping>>
    /\ UNCHANGED pairRest

\* handlePairRequest after its login fetch and resp.json(), lines 126-147
handlePairRequest_login(r) ==
    /\ redeem[r].pc = "login"
    /\ \/ /\ issued < MaxTokens
          /\ issued' = issued + 1
          /\ redeem' = [redeem EXCEPT ![r].pc = "store", ![r].tok = issued + 1,
                                      ![r].exp = now + ACCESS_TOKEN_LIFETIME]
       \/ /\ issued' = issued
          /\ \E resp \in LoginRejections :
               redeem' = [redeem EXCEPT ![r].pc = "done", ![r].result = Rejected(resp)]
    /\ UNCHANGED <<now, storeVars>>
    /\ UNCHANGED pairRest

\* a record written for the session's own identity, whatever the ticket says
handlePairRequest_store_own(r) ==
    /\ redeem[r].pc = "store"
    /\ userMapping' = [userMapping EXCEPT ![User] =
          [memchatAccessToken |-> redeem[r].tok, memchatRefreshToken |-> redeem[r].tok,
           accessTokenExpiresAt |-> redeem[r].exp, conversationId |-> ConvNull]]
    /\ redeem' = [redeem EXCEPT ![r].pc = "done", ![r].result = Success]
    /\ UNCHANGED <<now, issued, pairCodes>>
    /\ UNCHANGED pairRest

\* handlePairRequest after its await of storeUserMapping, lines 142-149
handlePairRequest_store(r) ==
    /\ redeem[r].pc = "store"
    /\ userMapping' = [userMapping EXCEPT ![redeem[r].raw.mentraUserId] =
          [memchatAccessToken |-> redeem[r].tok, memchatRefreshToken |-> redeem[r].tok,
           accessTokenExpiresAt |-> redeem[r].exp, conversationId |-> ConvNull]]
    /\ redeem' = [redeem EXCEPT ![r].pc = "done", ![r].result = Success]
    /\ UNCHANGED <<now, issued, pairCodes>>
    /\ UNCHANGED pairRest

\* ------------------------------------------------------------- time
Tick ==
    /\ now < limits.time
    /\ now' = now + 1
    /\ UNCHANGED <<issued, storeVars, redeem, proc, chatVars, visionVars, state, orchVars,
                   startedAfterDestroy, chatGhost, clientGhost,
                   limits, webAuth, voiceHook, sse, convReset, lastDone>>

\* ------------------------------------------- web client: lib/auth.ts
\* the variables of the bridge
bridgeVars == <<stopRest, stopCalls, sse>>

WebCalls == 1..MaxWebCalls
NoToken == 0                       \* localStorage.getItem(...) === null
AccessOf(n) == 10 + n              \* access_token of the n-th pair the backend issues
RefreshOf(n) == 20 + n             \* refresh_token of the n-th pair
\* what comes of the fetch of /api/auth/refresh and of reading its body: an ok
\* response with a token pair, a response that is not ok, or a rejection
Responses == {"ok", "not_ok", "throws"}

\* the locals of refreshAccessToken and, once it has returned, what it returned;
\* fetches counts its calls of the backend
NoWebCall == [pc |-> "idle", sent |-> NoToken, resp |-> "none", pair |-> 0,
              result |-> NoToken, returned |-> FALSE, fetches |-> 0]

NoWebAuth == [access |-> NoToken, refresh |-> NoToken, issued |-> 0,
              call |-> [c \in WebCalls |-> NoWebCall]]

\* setTokens(accessToken, refreshToken), lines 18-21, with the pair of a login
setTokens ==
    /\ webAuth.issued < MaxWebTokens
    /\ webAuth' = [webAuth EXCEPT !.issued = @ + 1,
                                  !.access = AccessOf(webAuth.issued + 1),
                                  !.refresh = RefreshOf(webAuth.issued + 1)]
    /\ UNCHANGED <<bridgeVars, voiceHook>>

\* clearTokens(), lines 23-26
clearTokens ==
    /\ webAuth.access # NoToken \/ webAuth.refresh # NoToken
    /\ webAuth' = [webAuth EXCEPT !.access = NoToken, !.refresh = NoToken]
    /\ UNCHANGED <<bridgeVars, voiceHook>>

\* refreshAccessToken up to its await of fetch, lines 32-41
web_refreshAccessToken(c) ==
    /\ webAuth.call[c].pc = "idle"
    /\ webAuth' = [webAuth EXCEPT !.call[c] =
          IF webAuth.refresh = NoToken
          THEN [NoWebCall EXCEPT !.returned = TRUE]
          ELSE [NoWebCall EXCEPT !.pc = "fetch", !.sent = webAuth.refresh,
                                 !.fetches = 1]]
    /\ UNCHANGED <<bridgeVars, voiceHook>>

\* a refresh that leaves the stored tokens alone when it fails
web_refreshAccessToken_fetch_keep(c) ==
    /\ webAuth.call[c].pc = "fetch"
    /\ \E resp \in Responses :
         IF resp = "ok"
         THEN /\ webAuth.issued < MaxWebTokens
              /\ LET n == webAuth.issued + 1 IN
                 webAuth' = [webAuth EXCEPT
                    !.issued = n, !.access = AccessOf(n), !.refresh = RefreshOf(n),
                    !.call[c] = [@ EXCEPT !.pc = "idle", !.resp = resp, !.pair = n,
                                          !.result = AccessOf(n), !.returned = TRUE]]
         ELSE webAuth' = [webAuth EXCEPT
                    !.call[c] = [@ EXCEPT !.pc = "idle", !.resp = resp,
                                          !.result = NoToken, !.returned = TRUE]]
    /\ UNCHANGED <<bridgeVars, voiceHook>>

\* refreshAccessToken after its await of fetch and of response.json(), lines 43-54
web_refreshAccessToken_fetch(c) ==
    /\ webAuth.call[c].pc = "fetch"
    /\ \E resp \in Responses :
         IF resp = "ok"
         THEN /\ webAuth.issued < MaxWebTokens
              /\ LET n == webAuth.issued + 1 IN
                 webAuth' = [webAuth EXCEPT
                    !.issued = n, !.access = AccessOf(n), !.refresh = RefreshOf(n),
                    !.call[c] = [@ EXCEPT !.pc = "idle", !.resp = resp, !.pair = n,
                                          !.result = AccessOf(n), !.returned = TRUE]]
         ELSE webAuth' = [webAuth EXCEPT
                    !.access = NoToken, !.refresh = NoToken,
                    !.call[c] = [@ EXCEPT !.pc = "idle", !.resp = resp,
                                          !.result = NoToken, !.returned = TRUE]]
    /\ UNCHANGED <<bridgeVars, voiceHook>>

\* ------------------------------- web client: hooks/useVoiceSession.ts
StartCalls == 1..MaxStartCalls
VoiceStatuses == {"idle", "connecting", "listening", "thinking", "speaking", "disconnecting"}
NoCallId == 0                      \* callIdRef.current === null, sessionRef.current === null
NoTranscript == 0                  \* null
TranscriptOf(callId) == 100 + callId   \* the transcript the backend holds of a call

\* the locals of endSession and, once it has returned, what it returned; ended is the
\* outcome of its /voice/end call, threw marks an exception that left it
NoEnd == [pc |-> "idle", session |-> NoCallId, callId |-> NoCallId, ended |-> "none",
          reply |-> NoTranscript, result |-> NoTranscript, returned |-> FALSE,
          threw |-> FALSE]

\* the hook before any call: the useState and useRef initial values, lines 22-26;
\* calls counts the calls the backend has started, start is where each startSession
\* call is suspended
NoVoice == [status |-> "idle", isActive |-> FALSE, sessionRef |-> NoCallId,
            callIdRef |-> NoCallId, calls |-> 0,
            start |-> [c \in StartCalls |-> "idle"], end |-> NoEnd]

\* startSession up to its await of /voice/start, lines 28-36, on the first free
\* frame; with a session in sessionRef it returns at once
startSession(c) ==
    /\ voiceHook.start[c] = "idle"
    /\ \A d \in StartCalls : d < c => voiceHook.start[d] # "idle"
    /\ voiceHook.sessionRef = NoCallId
    /\ voiceHook.calls < MaxVoiceCalls
    /\ voiceHook' = [voiceHook EXCEPT !.status = "connecting", !.start[c] = "fetch"]
    /\ UNCHANGED <<bridgeVars, webAuth>>

\* the catch of startSession, lines 88-94
startSession_catch(c) ==
    [voiceHook EXCEPT !.status = "idle", !.sessionRef = NoCallId,
                      !.callIdRef = NoCallId, !.start[c] = "idle"]

\* startSession after its await of /voice/start, lines 38-86
startSession_fetch(c) ==
    /\ voiceHook.start[c] = "fetch"
    /\ \E ok \in BOOLEAN :
         IF ok
         THEN /\ voiceHook.calls < MaxVoiceCalls
              /\ voiceHook' = [voiceHook EXCEPT !.calls = @ + 1,
                                                !.callIdRef = voiceHook.calls + 1,
                                                !.sessionRef = voiceHook.calls + 1,
                                                !.start[c] = "join"]
         ELSE voiceHook' = startSession_catch(c)
    /\ UNCHANGED <<bridgeVars, webAuth>>

\* startSession after its await of joinCall, lines 86-87
startSession_join(c) ==
    /\ voiceHook.start[c] = "join"
    /\ \E ok \in BOOLEAN :
         voiceHook' = IF ok
                      THEN [voiceHook EXCEPT !.isActive = TRUE, !.start[c] = "idle"]
                      ELSE startSession_catch(c)
    /\ UNCHANGED <<bridgeVars, webAuth>>

\* the "status" listener of a session that has not left its call, lines 46-70
onStatus(uvStatus) ==
    /\ voiceHook.sessionRef # NoCallId
    /\ voiceHook.status # uvStatus
    /\ voiceHook' = [voiceHook EXCEPT !.status = uvStatus]
    /\ UNCHANGED <<bridgeVars, webAuth>>

\* endSession from "setIsActive(false)" to its next await or its return, lines
\* 117-146, for the call id it read at its start
endSession_teardown(h, callId) ==
    [h EXCEPT !.isActive = FALSE, !.status = "idle",
              !.callIdRef = IF callId # NoCallId THEN @ ELSE NoCallId,
              !.end = IF callId # NoCallId
                      THEN [NoEnd EXCEPT !.pc = "fetch", !.callId = callId]
                      ELSE [NoEnd EXCEPT !.returned = TRUE]]

\* endSession up to its first await, lines 104-117
endSession ==
    /\ voiceHook.end.pc = "idle"
    /\ voiceHook' =
          IF voiceHook.sessionRef # NoCallId
          THEN [voiceHook EXCEPT !.status = "disconnecting",
                                 !.end = [NoEnd EXCEPT !.pc = "leave",
                                                       !.session = voiceHook.sessionRef,
                                                       !.callId = voiceHook.callIdRef]]
          ELSE endSession_teardown(voiceHook, voiceHook.callIdRef)
    /\ UNCHANGED <<bridgeVars, webAuth>>

\* endSession after its await of leaveCall, lines 113-117; a rejection leaves
\* endSession as an exception
endSession_left ==
    /\ voiceHook.end.pc = "leave"
    /\ \E ok \in BOOLEAN :
         voiceHook' =
            IF ok
            THEN endSession_teardown([voiceHook EXCEPT !.sessionRef = NoCallId],
                                     voiceHook.end.callId)
            ELSE [voiceHook EXCEPT !.end = [NoEnd EXCEPT !.threw = TRUE]]
    /\ UNCHANGED <<bridgeVars, webAuth>>

\* endSession after its await of /voice/end, lines 127-146
endSession_ended ==
    /\ voiceHook.end.pc = "fetch"
    /\ \E ok \in BOOLEAN, reply \in {NoTranscript, TranscriptOf(voiceHook.end.callId)} :
         voiceHook' = [voiceHook EXCEPT
            !.callIdRef = NoCallId,
            !.end = [@ EXCEPT !.pc = "idle", !.returned = TRUE,
                              !.ended = IF ok THEN "ok" ELSE "fail",
                              !.reply = IF ok THEN reply ELSE NoTranscript,
                              !.result = IF ok THEN reply ELSE NoTranscript]]
    /\ UNCHANGED <<bridgeVars, webAuth>>

\* ------------------------------------- MemchatClient.parseSSEStream
\* A response body is a sequence of bytes.  The ASCII bytes stand for their
\* characters; "C3" "A9" is the two-byte encoding of the character "E9".
LF == "LF"
Whitespace == {" ", "CR", LF}          \* what trim() and JSON.parse skip
Digits == {"1", "2"}
DataPrefix == <<"d", "a", "t", "a", ":", " ">>
Sentinel == <<"[", "D", "O", "N", "E", "]">>

\* TextDecoder.decode(value, { stream: true }), line 131: one byte, after the bytes
\* the decoder holds back; "?" is U+FFFD
DecodeByte(held, b) ==
    IF held = ""
    THEN CASE b = "C3" -> [out |-> <<>>, held |-> "C3"]
           [] b = "A9" -> [out |-> <<"?">>, held |-> ""]
           [] OTHER -> [out |-> <<b>>, held |-> ""]
    ELSE CASE b = "A9" -> [out |-> <<"E9">>, held |-> ""]
           [] b = "C3" -> [out |-> <<"?">>, held |-> "C3"]
           [] OTHER -> [out |-> <<"?", b>>, held |-> ""]

RECURSIVE Decode(_, _, _)
Decode(held, bytes, text) ==
    IF bytes = <<>> THEN [text |-> text, held |-> held]
    ELSE LET d == DecodeByte(held, Head(bytes))
         IN Decode(d.held, Tail(bytes), text \o d.out)

\* buffer.split("\n"), line 132: the pieces between the newlines, at least one
RECURSIVE Split(_, _, _)
Split(text, piece, pieces) ==
    IF text = <<>> THEN Append(pieces, piece)
    ELSE IF Head(text) = LF
         THEN Split(Tail(text), <<>>, Append(pieces, piece))
         ELSE Split(Tail(text), Append(piece, Head(text)), pieces)

\* a split that keeps no partial line
Remainder_dropped(pieces) == <<>>

\* lines.pop() ?? "", line 133
Remainder(pieces) == pieces[Len(pieces)]

RECURSIVE TrimStart(_)
TrimStart(s) ==
    IF s # <<>> /\ Head(s) \in Whitespace THEN TrimStart(Tail(s)) ELSE s

RECURSIVE TrimEnd(_)
TrimEnd(s) ==
    IF s # <<>> /\ s[Len(s)] \in Whitespace THEN TrimEnd(SubSeq(s, 1, Len(s) - 1)) ELSE s

\* String.prototype.trim
Trim(s) == TrimEnd(TrimStart(s))

StartsWith(s, prefix) == Len(s) >= Len(prefix) /\ SubSeq(s, 1, Len(prefix)) = prefix

\* String.prototype.slice(n)
Slice(s, n) == SubSeq(s, n + 1, Len(s))

\* a sentinel test that never matches
IsDone_never(jsonStr) == FALSE

\* line 140
IsDone(jsonStr) == jsonStr = Sentinel

\* JSON.parse, line 143: of the JSON texts only the numbers are written here; the
\* value of a number is its digits
JSONParse(jsonStr) ==
    LET t == Trim(jsonStr)
    IN IF t # <<>> /\ \A i \in 1..Len(t) : t[i] \in Digits
       THEN [ok |-> TRUE, value |-> t]
       ELSE [ok |-> FALSE, value |-> <<>>]

\* the for loop over the complete lines, lines 135-148; acc is what the generator
\* has yielded and whether it has returned
RECURSIVE ForLines(_, _)
ForLines(lines, acc) ==
    IF lines = <<>> \/ acc.returned THEN acc
    ELSE LET trimmed == Trim(Head(lines)) IN
         IF trimmed = <<>> \/ ~StartsWith(trimmed, DataPrefix)
         THEN ForLines(Tail(lines), acc)
         ELSE LET jsonStr == Slice(trimmed, 6) IN
              IF IsDone(jsonStr)
              THEN [acc EXCEPT !.returned = TRUE]
              ELSE LET r == JSONParse(jsonStr)
                   IN ForLines(Tail(lines),
                               IF r.ok THEN [acc EXCEPT !.yielded = Append(@, r.value)]
                               ELSE acc)

\* one turn of the while loop after reader.read() gave value, lines 131-148
ReadValue(g, value) ==
    LET d == Decode(g.held, value, <<>>)
        pieces == Split(g.buffer \o d.text, <<>>, <<>>)
        acc == ForLines(SubSeq(pieces, 1, Len(pieces) - 1),
                        [yielded |-> g.yielded, returned |-> FALSE])
    IN [g EXCEPT !.held = d.held,
                 !.buffer = Remainder(pieces),
                 !.yielded = acc.yielded,
                 !.pc = IF acc.returned THEN "returned" ELSE "read",
                 !.pos = g.pos + Len(value),
                 !.reads = Min(g.reads + 1, 2),
                 !.cut = g.cut \/ (Remainder(pieces) # <<>> /\ g.pos + Len(value) < Len(g.stream))]

\* the lines a backend may write, without their newline: an event, an event between
\* blanks and a carriage return, a frame that is not JSON, the sentinel, and an
\* empty line
LineTexts ==
    {DataPrefix \o <<"1">>,
     <<" ">> \o DataPrefix \o <<"2", "CR">>,
     DataPrefix \o <<"C3", "A9">>,
     DataPrefix \o Sentinel,
     <<>>}

RECURSIVE Join(_, _)
Join(ls, terminated) ==
    IF ls = <<>> THEN <<>>
    ELSE IF Len(ls) = 1 /\ ~terminated THEN Head(ls)
         ELSE Head(ls) \o <<LF>> \o Join(Tail(ls), terminated)

\* the response bodies: up to MaxLines lines, the last one with or without its newline
Streams ==
    {Join(ls, t) : ls \in UNION {[1..n -> LineTexts] : n \in 1..MaxLines}, t \in BOOLEAN}

\* the locals of parseSSEStream; stream is the response body, pos the bytes read,
\* reads tells one read from several, cut that a read ended inside a line
NoSSE == [pc |-> "idle", stream |-> <<>>, pos |-> 0, held |-> "", buffer |-> <<>>,
          yielded |-> <<>>, reads |-> 0, cut |-> FALSE]

sseRest == <<stopRest, stopCalls, webAuth, voiceHook>>

\* parseSSEStream up to its first await of reader.read(), lines 121-128
parseSSEStream ==
    /\ sse.pc = "idle"
    /\ \E body \in Streams : sse' = [NoSSE EXCEPT !.pc = "read", !.stream = body]
    /\ UNCHANGED sseRest

\* after an await of reader.read(): the end of the body, line 129, or the next
\* bytes of it, however many the network delivered, lines 131-148
parseSSEStream_read ==
    /\ sse.pc = "read"
    /\ IF sse.pos = Len(sse.stream)
       THEN sse' = [sse EXCEPT !.pc = "done"]
       ELSE \E n \in 1..(Len(sse.stream) - sse.pos) :
              sse' = ReadValue(sse, SubSeq(sse.stream, sse.pos + 1, sse.pos + n))
    /\ UNCHANGED sseRest

\* ---------------------------------------------------- specifications
\* a record left by an earlier session of the identity: its token was issued before
\* this session began
PriorExpiries == {TOKEN_REFRESH_BUFFER_MS + 1, ACCESS_TOKEN_LIFETIME}
PriorMappings ==
    {NoMapping} \cup
    [memchatAccessToken : {1}, memchatRefreshToken : {1},
     accessTokenExpiresAt : PriorExpiries, conversationId : {ConvNull, "c1"}]

NoTickets == [c \in Codes |-> NoPairing]

Fresh ==
    /\ now = 0
    /\ redeem = [r \in Redeemers |-> NoRedeem]
    /\ proc = [p \in Procs |-> IdleFrame]
    /\ processing = FALSE
    /\ pendingTranscript = NoText
    /\ wsOpen = FALSE
    /\ captureInterval = FALSE
    /\ reconnectAttempts = 0
    /\ timers = <<>>
    /\ failures = [open |-> 0, run |-> 0]
    /\ channel = [detached |-> 0, photos |-> 0]
    /\ visionLog = [starts |-> 0, stoppedFrames |-> FALSE, denied |-> FALSE,
                    reopened |-> FALSE]
    /\ convReset = [pc |-> "idle", mapping |-> NoMapping, presses |-> 0, clean |-> FALSE,
                    sentAt |-> 0, failed |-> FALSE]
    /\ lastDone = "none"
    /\ pollStart = 0
    /\ destroyCalls = 0
    /\ destroyedFrom = {}
    /\ startedAfterDestroy = {}
    /\ arrived = 0
    /\ sent = {}
    /\ overwritten = {}
    /\ lastRefresh = [status |-> -1, deleted |-> FALSE, raised |-> FALSE]
    /\ lastToken = [kind |-> "none", good |-> TRUE, refreshes |-> 0]
    /\ deadToken = FALSE
    /\ webAuth = NoWebAuth
    /\ voiceHook = NoVoice
    /\ sse = NoSSE

\* before the device session begins
Boot ==
    /\ Fresh
    /\ limits = [transcripts |-> LifeTranscripts, events |-> LifeEvents, time |-> LifeTime]
    /\ \E prior \in PriorMappings :
         /\ userMapping = [u \in Users |-> IF u = User THEN prior ELSE NoMapping]
         /\ issued = IF prior = NoMapping THEN 0 ELSE 1
    /\ camera \in BOOLEAN
    /\ conversationId = ConvNull
    /\ subscribed = FALSE
    /\ running = FALSE
    /\ state = "unpaired"
    /\ gsPc = "none"
    /\ memchatClient = FALSE
    /\ visionPipeline = FALSE
    /\ chatPipeline = FALSE
    /\ glasses = {}
    /\ live = FALSE
    /\ stopCalls = 0

Init ==
    /\ Boot
    /\ pairCodes = NoTickets

\* the same while another identity's session waits for its pairing: its ticket is
\* outstanding under the second code
InitRedeem ==
    /\ Boot
    /\ pairCodes = [c \in Codes |->
                       IF c = 100001 THEN [mentraUserId |-> "u2", createdAt |-> 0]
                       ELSE NoPairing]

\* a session of a paired identity on a device without camera, as startConnected
\* leaves it: both relays started, listening
InitChat ==
    /\ Fresh
    /\ pairCodes = NoTickets
    /\ limits = [transcripts |-> MaxTranscripts, events |-> MaxEvents, time |-> MaxTime]
    /\ \E prior \in PriorMappings \ {NoMapping} :
         /\ userMapping = [u \in Users |-> IF u = User THEN prior ELSE NoMapping]
         /\ conversationId = prior.conversationId
    /\ issued = 1
    /\ camera = FALSE
    /\ subscribed = TRUE
    /\ running = TRUE
    /\ state = "listening"
    /\ gsPc = "done"
    /\ memchatClient = TRUE
    /\ visionPipeline = TRUE
    /\ chatPipeline = TRUE
    /\ glasses = {SessionId}
    /\ live = TRUE
    /\ stopCalls = 0

\* a vision relay as startConnected has just made it, before its start(); the relay
\* is an exported class, driven here through its public start() and stop().  The
\* stored token is inside the refresh margin or far from its expiry, and the clock
\* stands still.
InitVision ==
    /\ Fresh
    /\ pairCodes = NoTickets
    /\ limits = [transcripts |-> 0, events |-> 0, time |-> 0]
    /\ \E expiry \in {TOKEN_REFRESH_BUFFER_MS, ACCESS_TOKEN_LIFETIME} :
         userMapping = [u \in Users |->
                           IF u = User
                           THEN [memchatAccessToken |-> 1, memchatRefreshToken |-> 1,
                                 accessTokenExpiresAt |-> expiry, conversationId |-> ConvNull]
                           ELSE NoMapping]
    /\ issued = 1
    /\ camera \in BOOLEAN
    /\ conversationId = ConvNull
    /\ subscribed = FALSE
    /\ running = FALSE
    /\ state = "connected"
    /\ gsPc = "vision_start"
    /\ memchatClient = TRUE
    /\ visionPipeline = TRUE
    /\ chatPipeline = FALSE
    /\ glasses = {SessionId}
    /\ live = TRUE
    /\ stopCalls = 0

\* a listening session as InitChat describes it, while the clock stands still
InitTurn ==
    /\ Fresh
    /\ pairCodes = NoTickets
    /\ limits = [transcripts |-> TurnTranscripts, events |-> TurnEvents, time |-> 0]
    /\ \E prior \in PriorMappings \ {NoMapping} :
         /\ userMapping = [u \in Users |-> IF u = User THEN prior ELSE NoMapping]
         /\ conversationId = prior.conversationId
    /\ issued = 1
    /\ camera = FALSE
    /\ subscribed = TRUE
    /\ running = TRUE
    /\ state = "listening"
    /\ gsPc = "done"
    /\ memchatClient = TRUE
    /\ visionPipeline = TRUE
    /\ chatPipeline = TRUE
    /\ glasses = {SessionId}
    /\ live = TRUE
    /\ stopCalls = 0

ClientNext(p) ==
    \/ getAccessToken(p)
    \/ refreshAccessToken_get(p)
    \/ refreshAccessToken_fetch(p)
    \/ refreshAccessToken_remove(p)
    \/ refreshAccessToken_store(p)

ChatNext ==
    \/ \E isFinal \in BOOLEAN : handleTranscription(isFinal)
    \/ \E p \in ChatTasks :
         \/ ClientNext(p)
         \/ chatStream_fetch(p)
         \/ chatStream_retry(p)
         \/ processMessage_event(p)
         \/ updateConversationId_get(p)
         \/ updateConversationId_store(p)
         \/ processMessage_speak(p)

VisionNext ==
    \/ ClientNext(VisionProc)
    \/ connect_opened(VisionProc)

SessionNext ==
    \/ onSession
    \/ initialize_get
    \/ startPairing_store
    \/ pollForCompletion_get
    \/ pollForCompletion_sleep
    \/ startPairing_spoken
    \/ startConnected_vision
    \/ startConnected_chat
    \/ onStop
    \/ destroy_again

PairNext(r) ==
    \/ handlePairRequest(r)
    \/ consumePairingCode_get(r)
    \/ consumePairingCode_del(r)
    \/ handlePairRequest_login(r)
    \/ handlePairRequest_store(r)

Next ==
    \/ Tick
    \/ SessionNext
    \/ PairNext(1)
    \/ ChatNext
    \/ VisionNext

Spec == Init /\ [][Next]_vars

NextChat ==
    \/ Tick
    \/ ChatNext

SpecChat == InitChat /\ [][NextChat]_vars

ResetNext ==
    \/ \E pressType \in {"short", "long"} : handleButton(pressType)
    \/ newConversation_get
    \/ newConversation_store
    \/ newConversation_spoken

NextTurn ==
    \/ ChatNext
    \/ ResetNext

SpecTurn == InitTurn /\ [][NextTurn]_vars

NextVision ==
    \/ start_called
    \/ stop_called
    \/ connect_timer
    \/ \E current \in BOOLEAN : ws_close(current)
    \/ captureAndSend
    \/ captureAndSend_photo
    \/ \E p \in VisionProcs :
         \/ ClientNext(p)
         \/ connect_opened(p)

SpecVision == InitVision /\ [][NextVision]_vars

\* a session that has to pair, and the pairing page used from several browsers
NextPair ==
    \/ Tick
    \/ onSession
    \/ initialize_get
    \/ startPairing_store
    \/ pollForCompletion_get
    \/ pollForCompletion_sleep
    \/ startPairing_spoken
    \/ startConnected_vision
    \/ startConnected_chat
    \/ VisionNext
    \/ \E r \in Redeemers : PairNext(r)

SpecPair == Init /\ [][NextPair]_vars

SpecRedeem == InitRedeem /\ [][NextPair]_vars

\* the browser with nothing stored, beside a bridge that has no session
InitWeb ==
    /\ Init
    /\ userMapping[User] = NoMapping
    /\ ~camera

NextWebAuth ==
    \/ setTokens
    \/ clearTokens
    \/ \E c \in WebCalls :
         \/ web_refreshAccessToken(c)
         \/ web_refreshAccessToken_fetch(c)

SpecWebAuth == InitWeb /\ [][NextWebAuth]_vars

NextVoice ==
    \/ \E c \in StartCalls :
         \/ startSession(c)
         \/ startSession_fetch(c)
         \/ startSession_join(c)
    \/ \E uvStatus \in VoiceStatuses : onStatus(uvStatus)
    \/ endSession
    \/ endSession_left
    \/ endSession_ended

SpecVoice == InitWeb /\ [][NextVoice]_vars

\* the session's life without its conversation turns, with the notifications that
\* find no orchestrator
NextStop ==
    \/ Tick
    \/ SessionNext
    \/ PairNext(1)
    \/ VisionNext
    \/ onStop_miss

SpecStop == Init /\ [][NextStop]_vars

\* one chat response body, read in pieces
NextSSE ==
    \/ parseSSEStream
    \/ parseSSEStream_read

SpecSSE == InitWeb /\ [][NextSSE]_vars

\* the same where every store and network call returns: a handler suspended on a call
\* that has returned runs on
SpecStart ==
    /\ Init
    /\ [][NextStop]_vars
    /\ WF_vars(initialize_get)
    /\ WF_vars(VisionNext)
    /\ WF_vars(startConnected_vision)
    /\ WF_vars(startConnected_chat)

\* the relay's channel without its capture requests
NextReconnect ==
    \/ start_called
    \/ stop_called
    \/ connect_timer
    \/ \E current \in BOOLEAN : ws_close(current)
    \/ \E p \in VisionProcs :
         \/ ClientNext(p)
         \/ connect_opened(p)

\* every reconnect timeout fires and every call of the client returns
SpecReconnect ==
    /\ InitVision
    /\ [][NextReconnect]_vars
    /\ WF_vars(connect_timer)
    /\ WF_vars(\E p \in VisionProcs : ClientNext(p) \/ connect_opened(p))

\* ------------------------------------------------------------ claims
\* the suspension points of a chatStream call: from its start to the end of its stream
InFlight(p) ==
    proc[p].pc \in {"gat_get", "ref_get", "ref_fetch", "ref_remove", "ref_store",
                    "cs_fetch1", "cs_fetch2", "cs_stream", "upd_get", "upd_store"}

Redeemed(r) == redeem[r].raw # NoPairing

\* C1: of two redemptions of the same outstanding pairing code at most one obtains
\* the ticket and goes on to the backend login; the other ends with the invalid-code
\* failure.  (One session issues one ticket, so one code names one ticket.)
C1_AtMostOneRedemption ==
    \A r1, r2 \in Redeemers :
        (r1 # r2 /\ redeem[r1].code = redeem[r2].code /\ Redeemed(r1))
            => ~Redeemed(r2)

\* C2: at most one streaming chat call of the relay is in flight at any time.
C2_OneCallInFlight ==
    Cardinality({p \in ChatTasks : InFlight(p)}) <= 1

\* a turn taken from the pending slot is in flight while a later transcript waits
C2_Witness ==
    \E p \in ChatTasks :
        /\ InFlight(p)
        /\ proc[p].origin = "dequeue"
        /\ pendingTranscript # NoText

\* C3: the chat call made for the transcripts queued during a turn carries the text of
\* the last transcript to arrive, and a transcript replaced in the pending slot is
\* never sent.
C3_QueuedCallCarriesLast ==
    /\ \A p \in ChatTasks :
          (proc[p].pc # "idle" /\ proc[p].origin = "dequeue")
              => proc[p].text = proc[p].latest
    /\ sent \cap overwritten = {}

\* a turn of task p ends in this step: its chain ends, or goes on to the next text
TurnEnds(p) ==
    /\ proc[p].pc # "idle"
    /\ proc'[p].pc = "idle" \/ proc'[p].text # proc[p].text

\* C4: when a turn ends with a transcript in the pending slot, whether by the end of
\* its stream or by a failure, that transcript is taken from the slot and its chat call
\* starts in the same step.
C4_PendingTakenAtTurnEnd ==
    [][\A p \in ChatTasks :
          (TurnEnds(p) /\ pendingTranscript # NoText)
              => /\ proc'[p].pc = "gat_get"
                 /\ proc'[p].text = pendingTranscript
                 /\ pendingTranscript' = NoText]_vars

\* C5: getAccessToken returns the stored token only while the clock is more than the
\* margin before its expiry, with no refresh; otherwise it returns the token of the
\* one refresh it performed.
C5_FreshOrRefreshed ==
    /\ lastToken.kind = "cached" => lastToken.good /\ lastToken.refreshes = 0
    /\ lastToken.kind = "refreshed" => lastToken.good /\ lastToken.refreshes = 1

\* getAccessToken has returned a refreshed token for a record inside the margin
C5_Witness ==
    /\ lastToken.kind = "refreshed"
    /\ lastToken.refreshes = 1
    /\ lastRefresh.status = 200

\* the chatStream call of task p is over, or has reached its stream
Settled(p) == proc[p].cs \in {"fail", "stream"}

\* C6 as claimed: a chatStream call whose first request got 401 makes exactly one
\* refresh and exactly one retried request.
C6_OneRefreshOneRetry ==
    \A p \in ChatTasks :
        (proc[p].first401 /\ Settled(p)) => proc[p].nRef = 1 /\ proc[p].nReq = 2

\* C6 amended: a chatStream call whose first request got 401 calls refresh exactly
\* once; it makes exactly one retried request when that refresh returns a token and
\* none when the refresh fails; a failed refresh or retry ends the call, which never
\* makes a third request or a second refresh.
C6_OneRefreshAtMostOneRetry ==
    \A p \in ChatTasks :
        /\ proc[p].nReq <= 2
        /\ proc[p].nRef <= 1
        /\ proc[p].first401 => proc[p].nRef = 1
        /\ ~proc[p].first401 => proc[p].nRef = 0 /\ proc[p].nReq <= 1
        /\ (proc[p].first401 /\ Settled(p)) =>
              IF proc[p].refOk
              THEN proc[p].nReq = 2
              ELSE proc[p].nReq = 1 /\ proc[p].cs = "fail"
        /\ (proc[p].cs = "fail") => proc[p].pc = "idle"

\* a call whose retried request failed after its refresh has ended
C6_Witness ==
    \E p \in ChatTasks :
        /\ proc[p].first401
        /\ proc[p].refOk
        /\ proc[p].cs = "fail"
        /\ proc[p].nReq = 2

\* C7: a refresh deletes the credential record exactly when the backend answered it
\* with 401, and it then raises an error.
C7_DeletedOnlyOn401 ==
    /\ lastRefresh.deleted <=> lastRefresh.status = 401
    /\ lastRefresh.status = 401 => lastRefresh.raised

\* a refresh was answered 401 and the record is gone
C7_Witness ==
    /\ lastRefresh.status = 401
    /\ lastRefresh.deleted
    /\ userMapping[User] = NoMapping

\* C8: once a dead refresh token has been detected in a connected session and the
\* turn that met it is over, the orchestrator is in state pairing.
C8_BackToPairing ==
    (deadToken /\ ~processing /\ \A p \in ChatTasks : proc[p].pc = "idle")
        => state = "pairing"

\* C9: every call of destroy(), in whatever state and however often, leaves the
\* orchestrator unpaired with no relay and no client attached.
C9_DestroyResets ==
    [][destroyCalls' # destroyCalls
          => /\ state' = "unpaired"
             /\ ~visionPipeline'
             /\ ~chatPipeline'
             /\ ~memchatClient']_vars

\* destroy() was called during a turn and then again on the destroyed orchestrator
C9_Witness ==
    /\ destroyCalls = 2
    /\ destroyedFrom = {"thinking", "unpaired"}
    /\ state = "unpaired"
    /\ ~visionPipeline
    /\ ~chatPipeline

\* C10: after destroy() the orchestrator stays unpaired, no relay is started on it and
\* its chat relay starts no further chat call.
C10_StaysTornDown ==
    destroyCalls > 0
        => /\ state = "unpaired"
           /\ ~visionPipeline
           /\ ~chatPipeline
           /\ startedAfterDestroy = {}

\* C11: from the return of stop() until the next start() the relay holds no open
\* channel, has no capture timer, sends no frame and schedules no reconnect, also when
\* stop() was called during a channel open or a backoff wait.
C11_QuietAfterStop ==
    /\ [](~running => ~wsOpen /\ ~captureInterval /\ ~visionLog.stoppedFrames)
    /\ [][(~running /\ ~running') => Len(timers') <= Len(timers)]_vars

\* C12 as claimed: a reconnect scheduled at the n-th consecutive failure, n counted
\* from 0 since the last successful open, is delayed by min(1000 * 2^n, 30000) ms.
C12_BackoffSinceOpen ==
    [][Len(timers') > Len(timers)
          => timers'[Len(timers')] =
                IF 1000 * 2^(failures.open) < 30000
                THEN 1000 * 2^(failures.open) ELSE 30000]_vars

\* C12 amended: the same with n counted since the last successful open or the last
\* start() of a stopped relay, whichever is later.
C12_BackoffSinceOpenOrStart ==
    [][Len(timers') > Len(timers)
          => timers'[Len(timers')] =
                IF 1000 * 2^(failures.run) < 30000
                THEN 1000 * 2^(failures.run) ELSE 30000]_vars

\* a reconnect is waiting with the capped delay while a later one, scheduled after a
\* successful open, waits with the base delay
C12_Witness ==
    /\ running
    /\ Len(timers) = 2
    /\ timers[1] = 30000
    /\ timers[2] = 1000

\* C13: once ten reconnects have been scheduled and have failed with no successful
\* open, a further failure schedules no reconnect; and an open attempt is only ever
\* made by a scheduled reconnect or by a start() of the stopped relay.
C13_NoReconnectAfterTen ==
    [][/\ Len(timers') > Len(timers) => failures.run < 10
       /\ (\E p \in VisionProcs : proc[p].pc = "idle" /\ proc'[p].pc = "gat_get")
             => \/ Len(timers') < Len(timers)
                \/ visionLog'.starts > visionLog.starts]_vars

\* the tenth reconnect has failed and the running relay is idle
C13_Witness ==
    /\ running
    /\ failures.run = 11
    /\ reconnectAttempts = 10
    /\ timers = <<>>
    /\ \A p \in VisionProcs : proc[p].pc = "idle"

\* the transition table of the session state
Table ==
    {<<"unpaired", "pairing">>, <<"unpaired", "connected">>, <<"pairing", "connected">>,
     <<"pairing", "unpaired">>, <<"connected", "listening">>, <<"listening", "thinking">>,
     <<"thinking", "speaking">>, <<"speaking", "listening">>, <<"thinking", "listening">>}

\* a turn ends in this step and the queued transcript's call starts in it
Dequeues ==
    \E p \in ChatTasks :
        /\ proc[p].pc # "idle"
        /\ proc'[p].pc = "gat_get"
        /\ proc'[p].origin = "dequeue"
        /\ proc'[p].text # proc[p].text

\* the values the state takes in one step, in order: a turn that ends sets listening
\* before the call of a queued transcript sets thinking
StateChanges == IF Dequeues THEN <<state, "listening", state'>> ELSE <<state, state'>>

\* C14: before destroy() every change of the session state is a transition of the
\* table, taken for the table's reason: unpaired to pairing or connected by the
\* credential lookup, pairing to connected with a record present, pairing to unpaired
\* at the pairing timeout, connected to listening with both relays started.
C14_TransitionTable ==
    [][destroyCalls' = 0
          => /\ \A i \in 1..(Len(StateChanges) - 1) :
                   \/ StateChanges[i] = StateChanges[i + 1]
                   \/ <<StateChanges[i], StateChanges[i + 1]>> \in Table
             /\ (state = "unpaired" /\ state' = "pairing") => userMapping[User] = NoMapping
             /\ (state = "unpaired" /\ state' = "connected") => userMapping[User] # NoMapping
             /\ (state = "pairing" /\ state' = "connected") => userMapping[User] # NoMapping
             /\ (state = "pairing" /\ state' = "unpaired") => now - pollStart >= POLL_TIMEOUT
             /\ (state = "connected" /\ state' = "listening")
                   => visionPipeline' /\ chatPipeline' /\ subscribed']_vars

\* a session that paired is in a turn taken from the pending slot, after a turn that
\* ended through listening
C14_Witness ==
    /\ destroyCalls = 0
    /\ state = "thinking"
    /\ \E r \in Redeemers : redeem[r].result = Success
    /\ \E p \in ChatTasks : proc[p].origin = "dequeue"

TextsOf(events) == [i \in 1..Len(events) |-> events[i].text]

TokensOf(events) == SelectSeq(events, LAMBDA e : e.type = "token")

\* the index of the last Content event, 0 when there is none
LastContent(events) ==
    IF \E i \in 1..Len(events) : events[i].type = "content"
    THEN CHOOSE i \in 1..Len(events) :
             /\ events[i].type = "content"
             /\ \A j \in (i + 1)..Len(events) : events[j].type # "content"
    ELSE 0

\* the final text the claim prescribes for a stream, as the sequence of its pieces
FinalText(events) ==
    IF LastContent(events) = 0
    THEN TextsOf(TokensOf(events))
    ELSE <<events[LastContent(events)].text>>
            \o TextsOf(TokensOf(SubSeq(events, LastContent(events) + 1, Len(events))))

HelLoHelloThere ==
    <<[type |-> "token", text |-> "Hel"], [type |-> "token", text |-> "lo"],
      [type |-> "content", text |-> "Hello there"]>>

\* C15: the text shown as the final card and spoken at the end of a turn is the text
\* of the last Content event followed by the Token texts received after it, or all
\* Token texts when there was no Content event; Tokens "Hel", "lo" and then Content
\* "Hello there" give "Hello there".
C15_FinalText ==
    \A p \in ChatTasks :
        proc[p].pc = "speak"
            => /\ proc[p].full = FinalText(proc[p].hist)
               /\ proc[p].hist = HelLoHelloThere => proc[p].full = <<"Hello there">>

\* the answer to "Hel", "lo", "Hello there" is being spoken
C15_Witness ==
    \E p \in ChatTasks :
        /\ proc[p].pc = "speak"
        /\ proc[p].hist = HelLoHelloThere
        /\ proc[p].full = <<"Hello there">>

\* the handle of the last Done event of a stream, "none" when there was none
DoneOf(events) ==
    IF \E i \in 1..Len(events) : events[i].type = "done"
    THEN events[CHOOSE i \in 1..Len(events) :
                   /\ events[i].type = "done"
                   /\ \A j \in (i + 1)..Len(events) : events[j].type # "done"].text
    ELSE "none"

\* a chat call starts in this step in frame p
CallStarts(p) ==
    /\ proc'[p].pc = "gat_get"
    /\ proc[p].pc = "idle" \/ proc'[p].text # proc[p].text

C17_HandleCleared ==
    /\ [][(convReset.pc = "speak" /\ convReset'.pc = "idle" /\ convReset'.clean)
             => /\ ~HasHandle(conversationId')
                /\ ~HasHandle(userMapping'[User].conversationId)]_vars
    /\ [](\A p \in ChatTasks : proc[p].next => ~HasHandle(proc[p].conv))

\* C18: a redemption attempt whose code has no outstanding ticket returns the failure
\* with error invalid_code, makes no backend login and writes no credential record,
\* and changes no ticket.
C18_InvalidCode ==
    /\ [](\A r \in Redeemers :
            (redeem[r].pc = "done" /\ redeem[r].raw = NoPairing)
                => /\ redeem[r].result = [success |-> FALSE, error |-> "invalid_code"]
                   /\ redeem[r].tok = 0)
    /\ [][\A r \in Redeemers :
             (redeem[r].pc = "get" /\ redeem'[r].pc = "done")
                 => UNCHANGED <<pairCodes, userMapping, issued>>]_vars

\* C19: a ticket is obtained by at most one redemption, whatever becomes of that
\* redemption's login, and only within the five minutes after its creation.
C19_SingleUseShortLived ==
    /\ \A r1, r2 \in Redeemers :
          (r1 # r2 /\ Redeemed(r1) /\ Redeemed(r2))
              => redeem[r1].code # redeem[r2].code \/ redeem[r1].raw # redeem[r2].raw
    /\ \A r \in Redeemers :
          Redeemed(r) => redeem[r].at < redeem[r].raw.createdAt + PAIRING_TTL

\* C20: a redemption writes a credential record only as its last step, after it has
\* obtained the ticket and the backend login has issued tokens, for the identity of
\* that ticket and with no conversation handle; a redemption whose login is rejected
\* writes none.
C20_RecordOnlyAfterLogin ==
    /\ [][\A u \in Users :
             (redeem' # redeem /\ userMapping'[u] # userMapping[u])
                 => \E r \in Redeemers :
                       /\ redeem[r].pc = "store" /\ redeem'[r].pc = "done"
                       /\ Redeemed(r)
                       /\ redeem[r].tok # 0
                       /\ u = redeem[r].raw.mentraUserId
                       /\ userMapping'[u].memchatAccessToken = redeem[r].tok
                       /\ userMapping'[u].conversationId = ConvNull]_vars
    /\ [](\A r \in Redeemers :
            (redeem[r].pc = "done" /\ ~redeem[r].result.success) => redeem[r].tok = 0)

\* the ticket of the other identity was redeemed and its record written, after a
\* redemption of the session's own ticket was rejected by the backend
C20_Witness ==
    /\ userMapping["u2"] # NoMapping
    /\ userMapping["u2"].conversationId = ConvNull
    /\ userMapping[User] = NoMapping
    /\ \E r1, r2 \in Redeemers :
          /\ redeem[r1].result = Success
          /\ redeem[r1].raw.mentraUserId = "u2"
          /\ redeem[r2].raw.mentraUserId = User
          /\ redeem[r2].pc = "done"
          /\ ~redeem[r2].result.success

\* the chat request of task p fails in this step: the fetch rejects or is answered
\* with a status that is neither ok nor a first 401
CallFails(p) ==
    /\ proc[p].pc \in {"cs_fetch1", "cs_fetch2"}
    /\ proc'[p].pc = "idle"

\* C21: when the streaming chat call fails, the turn has shown exactly one error card
\* for it, no further chat request is made for the turn, and the turn is over.
C21_ChatFailureCard ==
    [][\A p \in ChatTasks :
          CallFails(p) => /\ proc'[p].errs = 1
                          /\ proc'[p].nReq = proc[p].nReq
                          /\ ~processing']_vars

\* C22: a session-end notification for a session id without a registered orchestrator
\* changes nothing, the registry included; for a registered id it destroys the
\* orchestrator and removes the entry, so that a repeated notification finds none.
C22_SessionEnd ==
    [][stopCalls' # stopCalls =>
          IF SessionId \in glasses
          THEN /\ glasses' = glasses \ {SessionId}
               /\ destroyCalls' = destroyCalls + 1
               /\ state' = "unpaired"
               /\ ~visionPipeline' /\ ~chatPipeline' /\ ~memchatClient'
          ELSE UNCHANGED stopRest]_vars

\* the notification was repeated for a session that had been started and destroyed
C22_Witness ==
    /\ stopCalls = 2
    /\ destroyCalls = 1
    /\ gsPc # "none"
    /\ glasses = {}

\* pollForCompletion returns false in this step
PollExpires == gsPc = "poll_sleep" /\ gsPc' \notin {"poll_sleep", "poll_get"}

\* C23: the poll for the credential record ends without one only when the timeout has
\* elapsed; the orchestrator then leaves pairing for unpaired with no relay started,
\* and from then on it stores no pairing ticket and polls no more.
C23_PairingTimeout ==
    /\ [][PollExpires =>
             /\ now - pollStart >= POLL_TIMEOUT
             /\ gsPc' = "expired"
             /\ state' = "unpaired"
             /\ ~visionPipeline' /\ ~chatPipeline' /\ ~running'
             /\ pairCodes' = pairCodes]_vars
    /\ [][gsPc = "expired" =>
             /\ gsPc' = "expired"
             /\ pollStart' = pollStart
             /\ ~visionPipeline' /\ ~chatPipeline' /\ ~running'
             /\ \A c \in Codes : pairCodes'[c] \in {pairCodes[c], NoPairing}]_vars

\* the poll has timed out and no record was written, although a redemption was
\* attempted
C23_Witness ==
    /\ gsPc = "expired"
    /\ state = "unpaired"
    /\ userMapping[User] = NoMapping
    /\ now >= pollStart + POLL_TIMEOUT
    /\ \E r \in Redeemers : redeem[r].pc = "done"

\* C24: refreshAccessToken ends in one of three ways.  Without a stored refresh token
\* it returns null and has not called the backend; after an ok answer the returned
\* access and refresh tokens are stored and the new access token is returned; after
\* an answer that is not ok, or a rejection, both stored tokens are cleared and null
\* is returned.
C24_RefreshOutcomes ==
    [][\A c \in WebCalls :
          LET f == webAuth.call[c]
              g == webAuth'.call[c]
          IN  /\ (f.pc = "idle" /\ g # f) =>
                    IF webAuth.refresh = NoToken
                    THEN /\ g.pc = "idle" /\ g.returned
                         /\ g.result = NoToken
                         /\ g.fetches = 0
                         /\ webAuth'.access = webAuth.access
                         /\ webAuth'.refresh = NoToken
                    ELSE g.pc = "fetch" /\ g.sent = webAuth.refresh
              /\ (f.pc = "fetch" /\ g.pc = "idle") =>
                    /\ g.returned
                    /\ g.fetches = 1
                    /\ IF g.resp = "ok"
                       THEN /\ webAuth'.access = AccessOf(g.pair)
                            /\ webAuth'.refresh = RefreshOf(g.pair)
                            /\ g.result = AccessOf(g.pair)
                            /\ g.pair > webAuth.issued
                       ELSE /\ webAuth'.access = NoToken
                            /\ webAuth'.refresh = NoToken
                            /\ g.result = NoToken]_vars

\* one refresh stored a new pair, a later one was rejected and cleared it, and a
\* third found nothing stored
C24_Witness ==
    /\ webAuth.issued = 2
    /\ webAuth.access = NoToken
    /\ webAuth.refresh = NoToken
    /\ webAuth.call[1].returned /\ webAuth.call[1].fetches = 0
    /\ webAuth.call[2].returned /\ webAuth.call[2].resp = "throws"

\* endSession returns in this step, after at least one await
EndReturns == voiceHook.end.pc # "idle" /\ voiceHook'.end.pc = "idle"

\* C25: when endSession is over the hook is inactive, its status is idle and the call
\* id is cleared, whatever came of the /voice/end call; endSession has returned the
\* backend's transcript when that call succeeded and null when it failed.
C25_EndSessionIdle ==
    [][EndReturns =>
          /\ ~voiceHook'.isActive
          /\ voiceHook'.status = "idle"
          /\ voiceHook'.callIdRef = NoCallId
          /\ voiceHook'.end.returned
          /\ voiceHook'.end.result = voiceHook'.end.reply]_vars

\* the access/refresh pair of a credential record, with its expiry
PairOf(mapping) ==
    <<mapping.memchatAccessToken, mapping.memchatRefreshToken, mapping.accessTokenExpiresAt>>

\* a refresh stores its new pair in this step
RefreshStores == \E p \in Procs : proc[p].pc = "ref_store" /\ proc'[p].pc # "ref_store"

\* C26: the token pair of the credential record changes only when a refresh stores
\* its new pair or the record is deleted: a write of the conversation handle leaves
\* the pair as it is, also when it overlaps a refresh.
C26_PairKept ==
    [][(/\ userMapping[User] # NoMapping
        /\ userMapping'[User] # NoMapping
        /\ PairOf(userMapping'[User]) # PairOf(userMapping[User]))
          => RefreshStores]_vars

\* the open of the vision channel is refused as unauthorized in this step
OpenDenied == ~visionLog.denied /\ visionLog'.denied

\* C27: when the open of the vision channel is refused as unauthorized, the same call
\* refreshes the credential, and schedules no reconnect instead.
C27_VisionRefreshOnce ==
    [][OpenDenied =>
          /\ \E p \in VisionProcs : proc[p].pc = "ws_open" /\ proc'[p].pc = "ref_get"
          /\ timers' = timers]_vars

\* the stream of the turn has delivered an Error event
HasError(f) == \E i \in 1..Len(f.hist) : f.hist[i].type = "error"

\* the turn of task p ends in this step, or goes on to the queued transcript:
\* processMessage lines 193-202
Falls(p) ==
    IF pendingTranscript # NoText
    THEN /\ proc'[p].pc = "gat_get"
         /\ proc'[p].text = pendingTranscript
         /\ pendingTranscript' = NoText
         /\ processing'
         /\ state' = "thinking"
    ELSE /\ proc'[p].pc = "idle"
         /\ ~processing'
         /\ state' = "listening"

\* C28: an Error event leaves the turn running, with one more error card and the text
\* so far; the events after it are consumed as before; when the stream ends, text
\* that has accumulated is spoken, and then, or at once when there is none, the relay
\* is idle in listening unless a transcript is queued, which it goes on to process.
C28_ErrorKeepsTurn ==
    [][\A p \in ChatTasks :
          LET f == proc[p]
              g == proc'[p]
          IN  /\ (f.pc = "cs_stream" /\ Len(g.hist) = Len(f.hist) + 1
                     /\ g.hist[Len(g.hist)].type = "error") =>
                    /\ g.pc = "cs_stream"
                    /\ g.errs = f.errs + 1
                    /\ g.full = f.full
                    /\ processing' /\ state' = state
              /\ (f.pc = "cs_stream" /\ HasError(f) /\ Len(g.hist) = Len(f.hist) + 1) =>
                    /\ g.pc \in {"cs_stream", "upd_get"}
                    /\ g.full = Accumulate(f.full, g.hist[Len(g.hist)])
              /\ (f.pc = "cs_stream" /\ HasError(f) /\ ~g.thrown
                     /\ g.pc \notin {"cs_stream", "upd_get"}) =>
                    IF f.full # <<>>
                    THEN g.pc = "speak" /\ g.full = f.full /\ state' = "speaking"
                    ELSE Falls(p)
              /\ (f.pc = "speak" /\ HasError(f) /\ ~g.thrown /\ g.pc # "speak") =>
                    Falls(p)]_vars

\* an Error event came first, a token after it, the stream has ended and the text is
\* being spoken while a transcript is queued
C28_Witness ==
    \E p \in ChatTasks :
        /\ proc[p].pc = "speak"
        /\ Len(proc[p].hist) = 2
        /\ proc[p].hist[1].type = "error"
        /\ proc[p].hist[2].type = "token"
        /\ proc[p].full = <<proc[p].hist[2].text>>
        /\ pendingTranscript # NoText

\* the turn of task p ends with an exception in this step
TurnFails(p) == proc[p].pc # "idle" /\ proc'[p].pc = "idle" /\ proc'[p].thrown

\* C29: a turn that ends with an exception leaves the processing flag cleared and the
\* state listening; the flag is set only while a turn runs, and a final transcript
\* that arrives while it is cleared starts a turn with that transcript at once.
C29_UsableAfterFailure ==
    /\ [][\A p \in ChatTasks : TurnFails(p) => ~processing' /\ state' = "listening"]_vars
    /\ []((\A p \in ChatTasks : proc[p].pc = "idle") => ~processing)
    /\ [][(arrived' = arrived + 1 /\ ~processing) =>
             /\ processing'
             /\ state' = "thinking"
             /\ pendingTranscript' = pendingTranscript
             /\ \E p \in ChatTasks : /\ proc[p].pc = "idle"
                                      /\ proc'[p].pc = "gat_get"
                                      /\ proc'[p].text = arrived'
                                      /\ proc'[p].origin = "direct"]_vars

\* a turn has failed at its retried chat call, the relay is listening with the flag
\* cleared, and the device has a further transcript to deliver
C29_Witness ==
    /\ ~processing
    /\ state = "listening"
    /\ arrived < limits.transcripts
    /\ \E p \in ChatTasks :
          /\ proc[p].pc = "idle"
          /\ proc[p].thrown
          /\ proc[p].cs = "fail"
          /\ proc[p].first401

\* C30: a ticket is never stored under a code that identifies an outstanding ticket
\* of another identity.
C30_CodesUnique ==
    [][\A c \in Codes :
          (/\ PairGet(c) # NoPairing
           /\ pairCodes'[c] # pairCodes[c]
           /\ pairCodes'[c] # NoPairing)
             => pairCodes'[c].mentraUserId = pairCodes[c].mentraUserId]_vars

\* the generator has ended: the body is exhausted, or the sentinel was met
Ended == sse.pc \in {"done", "returned"}

\* what the generator yields when the whole body arrives in one read
OneRead(body) ==
    ReadValue([NoSSE EXCEPT !.pc = "read", !.stream = body], body).yielded

\* C31: the sequence of events chatStream yields depends only on the concatenated
\* bytes of the response: however the body was split into reads, the events yielded
\* by the time the generator ends are those it yields when the body arrives whole.
C31_SplitIndependent == Ended => sse.yielded = OneRead(sse.stream)

\* a body that arrived in several reads, one of them ending inside a line, and from
\* which two events were yielded
C31_Witness ==
    /\ Ended
    /\ sse.reads >= 2
    /\ sse.cut
    /\ Len(sse.yielded) >= 2

\* the lines of a body: the text before each of its newlines
CompleteLines(body) ==
    LET pieces == Split(Decode("", body, <<>>).text, <<>>, <<>>)
    IN SubSeq(pieces, 1, Len(pieces) - 1)

\* a line is a frame when, without the blanks around it, it begins with "data: "
IsFrame(line) == StartsWith(Trim(line), DataPrefix)
PayloadOf(line) == Slice(Trim(line), 6)
IsSentinel(line) == IsFrame(line) /\ PayloadOf(line) = Sentinel
WellFormed(line) == IsFrame(line) /\ ~IsSentinel(line) /\ JSONParse(PayloadOf(line)).ok
Malformed(line) == IsFrame(line) /\ ~IsSentinel(line) /\ ~JSONParse(PayloadOf(line)).ok

\* the index of the first sentinel frame, or one past the last line
FirstSentinel(lines) ==
    IF \E i \in 1..Len(lines) : IsSentinel(lines[i])
    THEN CHOOSE i \in 1..Len(lines) :
           IsSentinel(lines[i]) /\ \A j \in 1..(i - 1) : ~IsSentinel(lines[j])
    ELSE Len(lines) + 1

\* the values of the well-formed frames before the first sentinel, in order
Expected(body) ==
    LET lines == CompleteLines(body)
        good == SelectSeq(SubSeq(lines, 1, FirstSentinel(lines) - 1), WellFormed)
    IN [i \in 1..Len(good) |-> JSONParse(PayloadOf(good[i])).value]

\* C32: chatStream yields exactly the well-formed data frames of the response, in
\* order, up to the first [DONE] frame: a malformed frame is skipped and the stream
\* goes on, every well-formed frame before the sentinel or the end of the body is
\* yielded, and nothing after the sentinel is.  A frame is a line that its newline
\* ends; bytes after the last newline of a body are no frame.
C32_FramesYielded == Ended => sse.yielded = Expected(sse.stream)

\* the generator returned at a sentinel, after a malformed frame that it skipped and
\* a later event that it yielded, with a well-formed frame behind the sentinel
C32_Witness ==
    LET lines == CompleteLines(sse.stream)
        k == FirstSentinel(lines)
    IN /\ sse.pc = "returned"
       /\ sse.yielded # <<>>
       /\ \E i, j \in 1..Len(lines) :
            /\ i < j /\ j < k
            /\ Malformed(lines[i])
            /\ WellFormed(lines[j])
       /\ \E j \in 1..Len(lines) : j > k /\ WellFormed(lines[j])

\* C33: a session that starts with a credential record for its identity eventually
\* is listening with the chat relay subscribed to the transcriptions, whether the
\* first open of the vision channel succeeds or fails, when every store and network
\* call returns.
C33_ReachesListening ==
    (gsPc = "init_get" /\ userMapping[User] # NoMapping)
        ~> (state = "listening" /\ subscribed)

\* a session that is listening and subscribed after the first open of its vision
\* channel failed
C33_Witness ==
    /\ state = "listening"
    /\ subscribed
    /\ gsPc = "done"
    /\ destroyCalls = 0
    /\ camera
    /\ failures.run > 0
    /\ ~wsOpen

\* the relay holds an open channel, its capture timer runs and its counter is zero
Recovered == wsOpen /\ captureInterval /\ reconnectAttempts = 0

\* the first open since start() and the ten reconnects after it were all refused, or
\* the ten reconnects after a close
TenRefused == failures.run > MAX_RECONNECT_ATTEMPTS

\* C34: when the channel of a running relay has closed or failed to open, the relay
\* eventually holds an open channel again with the capture timer running and the
\* reconnect counter at zero, unless the relay is stopped or the backend accepts none
\* of the ten reconnect attempts.
C34_Recovers ==
    (running /\ failures.run > 0) ~> (Recovered \/ ~running \/ TenRefused)

\* a running relay that has recovered: its latest open came after a failure
C34_Witness ==
    /\ Recovered
    /\ running
    /\ visionLog.reopened

\* C35: the chat relay sends the transcripts in the order of their arrival: a chat
\* call is never started for a transcript that arrived before one already sent.
\* (The text of the n-th final transcript is n.)
C35_ArrivalOrder ==
    [][\A t \in sent' \ sent : \A earlier \in sent : earlier < t]_vars

\* p's refresh deletes the record in this step
RefreshDeletes(p) ==
    /\ proc[p].pc = "ref_remove"
    /\ proc'[p].pc # "ref_remove"
    /\ userMapping[User] # NoMapping
    /\ userMapping'[User] = NoMapping

\* C36: a refresh deletes the credential record only when the refresh token that the
\* backend rejected is the one the record holds at the deletion; a record that holds
\* a newer refresh token is not deleted, also when two calls of one session refresh
\* at the same time.
C36_DeletesRejectedToken ==
    [][\A p \in Procs :
         RefreshDeletes(p) =>
            userMapping[User].memchatRefreshToken = proc[p].mapping.memchatRefreshToken]_vars

\* a pairing redemption stores its record in this step
RedemptionStores ==
    \E r \in Redeemers : redeem[r].pc = "store" /\ redeem'[r].pc = "done"

\* C37: once a refresh has deleted the credential record after a rejection, the
\* identity has no record again until a pairing redemption succeeds: a write of the
\* conversation handle or a refresh that read the record before the deletion does
\* not write it back.  (The record of the session is there from the start, so it is
\* absent only after such a deletion.)
C37_StaysDeleted ==
    [][(lastRefresh.deleted /\ userMapping[User] = NoMapping
            /\ userMapping'[User] # NoMapping)
         => RedemptionStores]_vars

\* the connect() calls whose new WebSocket is waiting for its handshake
Opening == {p \in VisionProcs : proc[p].pc = "ws_open"}

\* C38: a vision relay has at most one active capture timer and at most one channel
\* that is open or being opened, whatever the sequence of start(), stop(), opens,
\* closes and reconnect timeouts.  The channels are counted here: the socket in
\* this.ws when it is open, and the sockets being opened.
C38_OneChannel ==
    Cardinality(Opening) + (IF wsOpen THEN 1 ELSE 0) <= 1

\* C39: before destroy(), at every suspension point the state of the session is
\* thinking or speaking exactly when the processing flag of the chat relay is set,
\* and it is listening whenever the relay is idle after the relays have started.
C39_StateFollowsFlag ==
    destroyCalls = 0 =>
        /\ processing <=> state \in {"thinking", "speaking"}
        /\ (gsPc = "done" /\ subscribed /\ ~processing) => state = "listening"

\* a session started from its record whose relay is speaking an answer
C39_Witness ==
    /\ destroyCalls = 0
    /\ gsPc = "done"
    /\ processing
    /\ state = "speaking"

\* the call c of startSession makes its /voice/start request in this step
StartsRequest(c) == voiceHook.start[c] = "idle" /\ voiceHook'.start[c] = "fetch"

\* C40: the voice hook has at most one voice session at a time: a startSession call
\* made while another start is in progress, or while a session is there, makes no
\* /voice/start request (and so creates no second UltravoxSession).
C40_OneVoiceSession ==
    [][\A c \in StartCalls :
         StartsRequest(c) =>
            /\ voiceHook.sessionRef = NoCallId
            /\ \A d \in StartCalls \ {c} : voiceHook.start[d] = "idle"]_vars

====
